---- MODULE Spec2Model ----
(***************************************************************************)
(* A model of the bignum library (include/bignum.h): the digit primitives, *)
(* the digit buffer (impl::Store), natural numbers (Unsigned), signed      *)
(* integers (Signed) and reduced rational numbers (Rational).              *)
(*                                                                         *)
(* A natural number is the sequence of its digits, least significant       *)
(* first; digit i of the C++ code is element i + 1 of the sequence.  The   *)
(* digit type digit_t is chosen when the library is built (DIGIT_T), so    *)
(* its width bitsPerDigit is a component of the state that Init fixes and  *)
(* no action changes.  A loop of the code is a recursive operator whose    *)
(* parameters are the variables the loop updates; a value the code         *)
(* computes once and reads several times is passed on as a parameter.      *)
(***************************************************************************)
EXTENDS Integers, Sequences, FiniteSets, TLC

VARIABLES
    bitsPerDigit,   \* impl::bitsPerDigit, the width of digit_t in this build
    op,             \* the operation executed last ("init" before the first)
    x,              \* the receiver (*this), or the first operand u
    y,              \* the argument, or the second operand v
    shift,          \* the shift count of a shift operation
    old,            \* the value x had before the operation
    out             \* the value the operation returned

vars == <<bitsPerDigit, op, x, y, shift, old, out>>

(***************************************************************************)
(* Language level: integer conversions, shifts and bitwise operators on    *)
(* digit_t.                                                                *)
(***************************************************************************)

\* the number of values of digit_t
Base == 2 ^ bitsPerDigit

\* the number of values of ddigit_t, twice as wide
DBase == Base * Base

\* static_cast<digit_t>(v)
ToDigit(v) == v % Base

\* static_cast<ddigit_t>(v), also of a negative intermediate result
ToDDigit(v) == v % DBase

\* static_cast<bool>(v) as 0 or 1
ToBool(v) == IF v # 0 THEN 1 ELSE 0

\* a << s and a >> s on digit_t (the result converted back to digit_t)
shl(a, s) == (a * (2 ^ s)) % Base
shr(a, s) == a \div (2 ^ s)

\* a & b, a | b and a ^ b on digit_t, bit by bit
RECURSIVE BitAnd(_, _)
BitAnd(a, b) ==
    IF a = 0 \/ b = 0 THEN 0
    ELSE 2 * BitAnd(a \div 2, b \div 2) + (IF a % 2 = 1 /\ b % 2 = 1 THEN 1 ELSE 0)

RECURSIVE BitOr(_, _)
BitOr(a, b) ==
    IF a = 0 THEN b
    ELSE IF b = 0 THEN a
    ELSE 2 * BitOr(a \div 2, b \div 2) + (IF a % 2 = 1 \/ b % 2 = 1 THEN 1 ELSE 0)

RECURSIVE BitXor(_, _)
BitXor(a, b) ==
    IF a = 0 THEN b
    ELSE IF b = 0 THEN a
    ELSE 2 * BitXor(a \div 2, b \div 2) + (IF a % 2 # b % 2 THEN 1 ELSE 0)

min(a, b) == IF b < a THEN b ELSE a

(***************************************************************************)
(* The seven primitive operations.  An operation with an in/out parameter  *)
(* returns a record holding the result and the parameter's new value; a    *)
(* bool carry is 0 or 1.                                                   *)
(***************************************************************************)

addCarry(a, b, carry) ==
    LET dd == ToDDigit(a + b + carry)
    IN [ret |-> ToDigit(dd), carry |-> ToBool(dd \div Base)]

\* a subtraction that drops the incoming borrow
subBorrowDropped(a, b, borrow) ==
    LET dd == ToDDigit(a - b)
    IN [ret |-> ToDigit(dd), borrow |-> ToBool(dd \div Base)]

subBorrow(a, b, borrow) ==
    LET dd == ToDDigit(a - b - borrow)
    IN [ret |-> ToDigit(dd), borrow |-> ToBool(dd \div Base)]

multiplyAdd(a, b, carry) ==
    LET dd == ToDDigit(a * b + carry)
    IN [ret |-> ToDigit(dd), carry |-> ToDigit(dd \div Base)]

\* a multiplication step that drops the incoming carry
multiplyAdd2Dropped(a, b, c, carry) ==
    LET dd == ToDDigit(a * b + c)
    IN [ret |-> ToDigit(dd), carry |-> ToDigit(dd \div Base)]

multiplyAdd2(a, b, c, carry) ==
    LET dd == ToDDigit(a * b + c + carry)
    IN [ret |-> ToDigit(dd), carry |-> ToDigit(dd \div Base)]

\* b # 0 is the caller's obligation (dd / b is undefined for b = 0)
divideRemainder(a, b, remainder) ==
    LET dd == ToDDigit(remainder * Base) + a
    IN [ret |-> ToDigit(dd \div b), remainder |-> ToDigit(dd % b)]

\* countLeadingZeroes<T>(val) for T = digit_t: the loop over i =
\* bitsPerDigit / 2, bitsPerDigit / 4, .., 1, with mask already shifted by i
RECURSIVE clzLoop(_, _, _, _)
clzLoop(i, mask, ret, val) ==
    IF i = 0 THEN ret
    ELSE IF BitAnd(val, mask) = 0
    THEN clzLoop(i \div 2, shl(mask, i \div 2), ret + i, shl(val, i))
    ELSE clzLoop(i \div 2, shl(mask, i \div 2), ret, val)

countLeadingZeroes(val) ==
    IF val = 0 THEN bitsPerDigit
    ELSE clzLoop(bitsPerDigit \div 2, shl(Base - 1, bitsPerDigit \div 2), 0, val)

RECURSIVE ctzLoop(_, _, _, _)
ctzLoop(i, mask, ret, val) ==
    IF i = 0 THEN ret
    ELSE IF BitAnd(val, mask) = 0
    THEN ctzLoop(i \div 2, shr(mask, i \div 2), ret + i, shr(val, i))
    ELSE ctzLoop(i \div 2, shr(mask, i \div 2), ret, val)

countTrailingZeroes(val) ==
    IF val = 0 THEN bitsPerDigit
    ELSE ctzLoop(bitsPerDigit \div 2, shr(Base - 1, bitsPerDigit \div 2), 0, val)

(***************************************************************************)
(* The digit buffer as the numbers use it: size(), operator[] and          *)
(* resize().  New digits of a grown buffer are uninitialized; operator[]   *)
(* asserts i < sz, so an access outside the buffer has no value here.      *)
(***************************************************************************)

Uninit == "uninitialized"

\* digit[i], read
At(d, i) == CASE i >= 0 /\ i < Len(d) -> d[i + 1]

\* digit[i] = v
Put(d, i, v) == CASE i >= 0 /\ i < Len(d) -> [d EXCEPT ![i + 1] = v]

\* digit.resize(n), for a buffer that works as its contract says
resize(d, n) ==
    IF n <= Len(d) THEN SubSeq(d, 1, n)
    ELSE d \o [k \in 1..(n - Len(d)) |-> Uninit]

(***************************************************************************)
(* Unsigned: private helpers.  A local operator of a definition is the     *)
(* rest of the function from the statement its comment names; its          *)
(* parameter is the value that statement produced.                         *)
(***************************************************************************)

\* the loop of removeLeadingZeroDigits: the size without leading zero digits
RECURSIVE rlzLoop(_, _)
rlzLoop(d, n) == IF n > 0 /\ At(d, n - 1) = 0 THEN rlzLoop(d, n - 1) ELSE n

removeLeadingZeroDigits(d) == resize(d, rlzLoop(d, Len(d)))

Unsigned_countLeadingZeroes(d) ==
    IF Len(d) = 0 THEN 0 ELSE countLeadingZeroes(At(d, Len(d) - 1))

\* for (; (i < n) && carry; ++i) digit[i] = addCarry(digit[i], 0, carry);
RECURSIVE addCarryLoop(_, _, _, _)
addCarryLoop(d, i, n, carry) ==
    IF i < n /\ carry = 1
    THEN LET a == addCarry(At(d, i), 0, carry)
         IN addCarryLoop(Put(d, i, a.ret), i + 1, n, a.carry)
    ELSE [digit |-> d, carry |-> carry]

\* if (carry) { digit.resize(n + 1); digit[n] = 1; }
appendCarry(s, n) == IF s.carry = 1 THEN Put(resize(s.digit, n + 1), n, 1) ELSE s.digit

addDigit(d, dg) ==
    LET \* after digit[0] = addCarry(digit[0], d, carry)
        first(a) == appendCarry(addCarryLoop(Put(d, 0, a.ret), 1, Len(d), a.carry), Len(d))
    IN IF Len(d) = 0
       THEN (IF dg # 0 THEN Put(resize(d, 1), 0, dg) ELSE d)
       ELSE first(addCarry(At(d, 0), dg, 0))

\* for (; (i < n) && borrow; ++i) digit[i] = subBorrow(digit[i], 0, borrow);
RECURSIVE subBorrowLoop(_, _, _, _)
subBorrowLoop(d, i, n, borrow) ==
    IF i < n /\ borrow = 1
    THEN LET b == subBorrow(At(d, i), 0, borrow)
         IN subBorrowLoop(Put(d, i, b.ret), i + 1, n, b.borrow)
    ELSE [digit |-> d, borrow |-> borrow]

\* [thrown |-> std::logic_error was thrown, digit |-> the digits afterwards]
subtractDigit(d, dg) ==
    LET \* after digit[0] = subBorrow(digit[0], d, borrow)
        first(b) ==
            removeLeadingZeroDigits(subBorrowLoop(Put(d, 0, b.ret), 1, Len(d), b.borrow).digit)
    IN IF Len(d) = 0 \/ (Len(d) = 1 /\ dg > At(d, 0))
       THEN [thrown |-> TRUE, digit |-> d]
       ELSE [thrown |-> FALSE, digit |-> first(subBorrow(At(d, 0), dg, 0))]

RECURSIVE multiplyByDigitLoop(_, _, _, _)
multiplyByDigitLoop(d, dg, i, carry) ==
    IF i < Len(d)
    THEN LET m == multiplyAdd(At(d, i), dg, carry)
         IN multiplyByDigitLoop(Put(d, i, m.ret), dg, i + 1, m.carry)
    ELSE [digit |-> d, carry |-> carry]

multiplyByDigit(d, dg) ==
    LET \* after the loop: if (carry != 0) { digit.resize(n + 1); digit[n] = carry; }
        last(s) == IF s.carry # 0 THEN Put(resize(s.digit, Len(d) + 1), Len(d), s.carry)
                   ELSE s.digit
    IN last(multiplyByDigitLoop(d, dg, 0, 0))

RECURSIVE divideByDigitLoop(_, _, _, _)
divideByDigitLoop(d, dg, i, remainder) ==
    IF i # 0
    THEN LET q == divideRemainder(At(d, i - 1), dg, remainder)
         IN divideByDigitLoop(Put(d, i - 1, q.ret), dg, i - 1, q.remainder)
    ELSE [digit |-> d, rem |-> remainder]

\* [digit |-> the quotient left in *this, rem |-> the returned remainder]
divideByDigitReturnRem(d, dg) ==
    LET \* after the loop: if (digit[n - 1] == 0) digit.resize(n - 1);
        last(s) ==
            [digit |-> IF At(s.digit, Len(d) - 1) = 0 THEN resize(s.digit, Len(d) - 1)
                       ELSE s.digit,
             rem |-> s.rem]
    IN IF dg = 1 THEN [digit |-> d, rem |-> 0]
       ELSE last(divideByDigitLoop(d, dg, Len(d), 0))

(***************************************************************************)
(* Unsigned: division (Knuth's Algorithm D).                               *)
(***************************************************************************)

\* qFits with the comparison of the low digits made strict
qFitsStrict(carry, r, p1, un2) == (carry < r) \/ ((carry = r) /\ (p1 < un2))

\* (carry < r) || ((carry == r) && (p1 <= un2))
qFits(carry, r, p1, un2) == (carry < r) \/ ((carry = r) /\ (p1 <= un2))

\* Unsigned::findDivQuotient(un, un1, un2, vn1, vn2)
findDivQuotient5(un, un1, un2, vn1, vn2) ==
    LET \* un < vn1, after p1 = subBorrow(p1, vn2, borrow); carry -= borrow;
        lowSecond(q, r, b, carry) ==
            IF qFits(ToDigit(carry - b.borrow), r, b.ret, un2)
            THEN ToDigit(q - 1) ELSE ToDigit(q - 2)
        \* un < vn1, after r = addCarry(r, vn1, acarry)
        lowAdded(q, a, m) ==
            IF a.carry = 1 THEN ToDigit(q - 1)
            ELSE lowSecond(q, a.ret, subBorrow(m.ret, vn2, 0), m.carry)
        \* un < vn1, after p1 = multiplyAdd(q, vn2, carry)
        lowProduct(q, r, m) ==
            IF qFits(m.carry, r, m.ret, un2) THEN q
            ELSE lowAdded(q, addCarry(r, vn1, 0), m)
        \* un < vn1, after q = divideRemainder(un1, vn1, r)
        low(d) == lowProduct(d.ret, d.remainder, multiplyAdd(d.ret, vn2, 0))
        \* un >= vn1 and then un < vn1, after p1 = multiplyAdd(q, vn2, carry)
        midProduct(q, r, m) ==
            IF qFits(m.carry, r, m.ret, un2) THEN q ELSE ToDigit(q - 1)
        \* un >= vn1 and then un < vn1, after r = addCarry(r, vn1, acarry)
        midAdded(q, a) ==
            IF a.carry = 1 THEN q ELSE midProduct(q, a.ret, multiplyAdd(q, vn2, 0))
        \* un >= vn1 and then un < vn1, after q = divideRemainder(un1, vn1, r)
        mid(d) == midAdded(d.ret, addCarry(d.remainder, vn1, 0))
        \* un >= vn1, after un1 = subBorrow(un1, vn1, borrow); un -= borrow;
        reduced(nun, nun1) ==
            IF nun < vn1
            THEN mid(divideRemainder(nun1, vn1, nun))
            ELSE divideRemainder(ToDigit(nun1 - vn1), vn1, ToDigit(nun - 1)).ret
        high(b) == reduced(ToDigit(un - b.borrow), b.ret)
    IN IF un < vn1
       THEN low(divideRemainder(un1, vn1, un))
       ELSE high(subBorrow(un1, vn1, 0))

\* Unsigned::findDivQuotient(u, ls, vn1, vn2, i)
findDivQuotient(u, ls, vn1, vn2, i) ==
    LET rs == bitsPerDigit - ls
    IN IF ls = 0
       THEN findDivQuotient5(At(u, i), At(u, i - 1), At(u, i - 2), vn1, vn2)
       ELSE findDivQuotient5(BitOr(shl(At(u, i), ls), shr(At(u, i - 1), rs)),
                             BitOr(shl(At(u, i - 1), ls), shr(At(u, i - 2), rs)),
                             IF (i - 2) > 0
                             THEN BitOr(shl(At(u, i - 2), ls), shr(At(u, i - 3), rs))
                             ELSE shl(At(u, i - 2), ls),
                             vn1, vn2)

\* step D4 of div: nu[j .. j + n - 1] -= qd * v, the carry left in carry
RECURSIVE divD4Loop(_, _, _, _, _, _)
divD4Loop(nu, carry, v, qd, j, i) ==
    LET \* after md = multiplyAdd(qd, v.digit[i], carry)
        subtract(md, sb) ==
            divD4Loop(Put(nu, i + j, sb.ret), ToDigit(md.carry + sb.borrow), v, qd, j, i + 1)
        product(md) == subtract(md, subBorrow(At(nu, j + i), md.ret, 0))
    IN IF i < Len(v)
       THEN product(multiplyAdd(qd, At(v, i), carry))
       ELSE [nu |-> nu, carry |-> carry]

\* step D6 of div: nu[j .. j + n - 1] += v
RECURSIVE divD6Loop(_, _, _, _, _)
divD6Loop(nu, acarry, v, j, i) ==
    IF i < Len(v)
    THEN LET a == addCarry(At(nu, j + i), At(v, i), acarry)
         IN divD6Loop(Put(nu, j + i, a.ret), a.carry, v, j, i + 1)
    ELSE [nu |-> nu, acarry |-> acarry]

\* steps D3 to D6 of div for the quotient position j
divStep(nu, q, v, ls, vn1, vn2, j) ==
    LET n == Len(v)
        \* D6, after the loop: nu.digit[j + n] += acarry;
        d6(s, nq) == [nu |-> Put(s.nu, j + n, ToDigit(At(s.nu, j + n) + s.acarry)), q |-> nq]
        \* D5, after nu.digit[j + n] = subBorrow(nu.digit[j + n], carry, borrow)
        d5(nnu, top, nq) ==
            IF top.borrow = 1
            THEN d6(divD6Loop(Put(nnu, j + n, top.ret), 0, v, j, 0),
                    Put(nq, j, ToDigit(At(nq, j) - 1)))
            ELSE [nu |-> Put(nnu, j + n, top.ret), q |-> nq]
        \* D4, after the loop
        d4(s, qd) == d5(s.nu, subBorrow(At(s.nu, j + n), s.carry, 0), Put(q, j, qd))
        \* after D3
        d3(qd) == d4(divD4Loop(nu, 0, v, qd, j, 0), qd)
    IN d3(findDivQuotient(nu, ls, vn1, vn2, j + n))

\* steps D2 and D7 of div: j = m, m - 1, .., 0
RECURSIVE divLoop(_, _, _, _, _, _)
divLoop(s, v, ls, vn1, vn2, j) ==
    LET d7(t) == IF j = 0 THEN t ELSE divLoop(t, v, ls, vn1, vn2, j - 1)
    IN d7(divStep(s.nu, s.q, v, ls, vn1, vn2, j))

\* step D1 of div for a divisor with ls leading zero bits: its two leading
\* digits after a left shift by ls
divNormalized(v, ls) ==
    LET n == Len(v)
        rs == bitsPerDigit - ls
    IN IF ls = 0
       THEN [ls |-> ls, vn1 |-> At(v, n - 1), vn2 |-> At(v, n - 2)]
       ELSE [ls |-> ls,
             vn1 |-> BitOr(shl(At(v, n - 1), ls), shr(At(v, n - 2), rs)),
             vn2 |-> IF n > 2
                     THEN BitOr(shl(At(v, n - 2), ls), shr(At(v, n - 3), rs))
                     ELSE shl(At(v, n - 2), ls)]

\* a division that hands back a zero quotient where div throws
divUnchecked(u, v) == [thrown |-> FALSE, quot |-> <<>>, rem |-> u]

\* div(const Unsigned& u, const Unsigned& v)
\* [thrown |-> std::invalid_argument was thrown, quot, rem]
div(u, v) ==
    LET \* D8
        d8(t) == [thrown |-> FALSE,
                  quot |-> removeLeadingZeroDigits(t.q),
                  rem |-> removeLeadingZeroDigits(t.nu)]
        \* a divisor of at least two digits, after D1
        long(d1) ==
            d8(divLoop([nu |-> Put(resize(u, Len(u) + 1), Len(u), 0),
                        q |-> resize(<<>>, Len(u) - Len(v) + 1)],
                       v, d1.ls, d1.vn1, d1.vn2, Len(u) - Len(v)))
        \* a divisor of one digit, after quot.divideByDigitReturnRem(v.digit[0])
        short(dr) ==
            [thrown |-> FALSE, quot |-> dr.digit,
             rem |-> removeLeadingZeroDigits(Put(resize(<<>>, 1), 0, dr.rem))]
    IN IF Len(v) = 0 THEN [thrown |-> TRUE]
       ELSE IF Len(v) > Len(u) THEN [thrown |-> FALSE, quot |-> <<>>, rem |-> u]
       ELSE IF Len(v) = 1 THEN short(divideByDigitReturnRem(u, At(v, 0)))
       ELSE long(divNormalized(v, Unsigned_countLeadingZeroes(v)))

(***************************************************************************)
(* Unsigned: the compound assignment operators.  Each takes the digits of  *)
(* *this (d) and the argument, and returns the digits of *this afterwards. *)
(***************************************************************************)

\* for (i < m) digit[i] = v.digit[i];
RECURSIVE copyLoop(_, _, _, _)
copyLoop(d, v, i, m) == IF i < m THEN copyLoop(Put(d, i, At(v, i)), v, i + 1, m) ELSE d

\* for (i < ds) digit[i] = 0;
RECURSIVE zeroLoop(_, _, _)
zeroLoop(d, i, ds) == IF i < ds THEN zeroLoop(Put(d, i, 0), i + 1, ds) ELSE d

RECURSIVE orAssignLoop(_, _, _, _)
orAssignLoop(d, v, i, m) ==
    IF i < m THEN orAssignLoop(Put(d, i, BitOr(At(d, i), At(v, i))), v, i + 1, m) ELSE d

operatorOrAssign(d, v) ==
    IF Len(d) < Len(v)
    THEN copyLoop(orAssignLoop(resize(d, Len(v)), v, 0, Len(d)), v, Len(d), Len(v))
    ELSE orAssignLoop(d, v, 0, Len(v))

RECURSIVE andAssignLoop(_, _, _, _)
andAssignLoop(d, v, i, n) ==
    IF i < n THEN andAssignLoop(Put(d, i, BitAnd(At(d, i), At(v, i))), v, i + 1, n) ELSE d

operatorAndAssign(d, v) ==
    removeLeadingZeroDigits(
        andAssignLoop(resize(d, min(Len(d), Len(v))), v, 0, min(Len(d), Len(v))))

RECURSIVE xorAssignLoop(_, _, _, _)
xorAssignLoop(d, v, i, m) ==
    IF i < m THEN xorAssignLoop(Put(d, i, BitXor(At(d, i), At(v, i))), v, i + 1, m) ELSE d

operatorXorAssign(d, v) ==
    removeLeadingZeroDigits(
        IF Len(d) < Len(v)
        THEN copyLoop(xorAssignLoop(resize(d, Len(v)), v, 0, Len(d)), v, Len(d), Len(v))
        ELSE xorAssignLoop(d, v, 0, Len(v)))

\* operator<<=, lbs == 0: for (i < n) digit[i + ds] = digit[i];
RECURSIVE shlAssignMoveLoop(_, _, _, _)
shlAssignMoveLoop(d, ds, i, n) ==
    IF i < n THEN shlAssignMoveLoop(Put(d, i + ds, At(d, i)), ds, i + 1, n) ELSE d

\* operator<<=, lbs # 0: for (i < n - 1) digit[ds + n - i - 1] = ..
RECURSIVE shlAssignLoop(_, _, _, _, _, _)
shlAssignLoop(d, n, ds, lbs, rbs, i) ==
    IF i < n - 1
    THEN shlAssignLoop(Put(d, ds + n - i - 1,
                           BitOr(shl(At(d, n - i - 1), lbs), shr(At(d, n - i - 2), rbs))),
                       n, ds, lbs, rbs, i + 1)
    ELSE d

\* Unsigned::operator<<=(std::size_t s)
operatorShlAssign(d, s) ==
    LET n == Len(d)
        ds == s \div bitsPerDigit
        lbs == s % bitsPerDigit
        rbs == bitsPerDigit - lbs
        \* lbs # 0, the resize and the new top digit
        grown(lz) == IF lbs > lz
                     THEN Put(resize(d, n + ds + 1), n + ds, shr(At(d, n - 1), rbs))
                     ELSE resize(d, n + ds)
        \* lbs # 0, after the loop: digit[ds] = digit[0] << lbs; and the zero digits
        low(e) == zeroLoop(Put(e, ds, shl(At(e, 0), lbs)), 0, ds)
    IN IF s = 0 \/ n = 0 THEN d
       ELSE IF lbs = 0
       THEN zeroLoop(shlAssignMoveLoop(resize(d, n + ds), ds, 0, n), 0, ds)
       ELSE low(shlAssignLoop(grown(Unsigned_countLeadingZeroes(d)), n, ds, lbs, rbs, 0))

\* operator>>=, rbs == 0: for (i < m) digit[i] = digit[ds + i];
RECURSIVE shrAssignMoveLoop(_, _, _, _)
shrAssignMoveLoop(d, ds, i, m) ==
    IF i < m THEN shrAssignMoveLoop(Put(d, i, At(d, ds + i)), ds, i + 1, m) ELSE d

\* operator>>=, rbs # 0: for (i < n - ds - 1) digit[i] = ..
RECURSIVE shrAssignLoop(_, _, _, _, _, _)
shrAssignLoop(d, n, ds, rbs, lbs, i) ==
    IF i < n - ds - 1
    THEN shrAssignLoop(Put(d, i, BitOr(shr(At(d, i + ds), rbs), shl(At(d, i + ds + 1), lbs))),
                       n, ds, rbs, lbs, i + 1)
    ELSE d

\* Unsigned::operator>>=(std::size_t s)
operatorShrAssign(d, s) ==
    LET n == Len(d)
        ds == s \div bitsPerDigit
        rbs == s % bitsPerDigit
        lbs == bitsPerDigit - rbs
        \* rbs # 0, after the loop: the top digit and the resize to m digits
        top(e, lz, m) ==
            resize(IF lz < lbs THEN Put(e, n - ds - 1, shr(At(e, n - 1), rbs)) ELSE e, m)
        \* after nb = n * bitsPerDigit - lz
        counted(lz, nb) ==
            IF s >= nb THEN resize(d, 0)
            ELSE IF rbs = 0 THEN resize(shrAssignMoveLoop(d, ds, 0, n - ds), n - ds)
            ELSE top(shrAssignLoop(d, n, ds, rbs, lbs, 0), lz,
                     (nb - s - 1) \div bitsPerDigit + 1)
        \* after lz = countLeadingZeroes()
        measured(lz) == counted(lz, n * bitsPerDigit - lz)
    IN IF s = 0 \/ n = 0 THEN d
       ELSE measured(Unsigned_countLeadingZeroes(d))

\* for (i < m) digit[i] = addCarry(digit[i], v.digit[i], carry);
RECURSIVE plusAssignLoop(_, _, _, _, _)
plusAssignLoop(d, v, i, m, carry) ==
    IF i < m
    THEN LET a == addCarry(At(d, i), At(v, i), carry)
         IN plusAssignLoop(Put(d, i, a.ret), v, i + 1, m, a.carry)
    ELSE [digit |-> d, carry |-> carry]

\* for (i = n; i < m; ++i) digit[i] = addCarry(v.digit[i], 0, carry);
RECURSIVE plusAssignRestLoop(_, _, _, _, _)
plusAssignRestLoop(d, v, i, m, carry) ==
    IF i < m
    THEN LET a == addCarry(At(v, i), 0, carry)
         IN plusAssignRestLoop(Put(d, i, a.ret), v, i + 1, m, a.carry)
    ELSE [digit |-> d, carry |-> carry]

\* Unsigned::operator+=(const Unsigned& v)
operatorPlusAssign(d, v) ==
    LET n == Len(d)
        m == Len(v)
        \* m <= n, after the first loop
        short(t) == appendCarry(addCarryLoop(t.digit, m, n, t.carry), n)
        \* m > n, after the second loop
        longEnd(t) == IF t.carry = 1 THEN Put(t.digit, m, 1) ELSE resize(t.digit, m)
        \* m > n, after the first loop
        long(t) == longEnd(plusAssignRestLoop(t.digit, v, n, m, t.carry))
    IN IF m <= n
       THEN short(plusAssignLoop(d, v, 0, m, 0))
       ELSE long(plusAssignLoop(resize(d, m + 1), v, 0, n, 0))

\* for (i < m) digit[i] = subBorrow(digit[i], v.digit[i], borrow);
RECURSIVE minusAssignLoop(_, _, _, _, _)
minusAssignLoop(d, v, i, m, borrow) ==
    IF i < m
    THEN LET b == subBorrow(At(d, i), At(v, i), borrow)
         IN minusAssignLoop(Put(d, i, b.ret), v, i + 1, m, b.borrow)
    ELSE [digit |-> d, borrow |-> borrow]

\* Unsigned::operator-=(const Unsigned& v)
\* [thrown |-> std::invalid_argument was thrown, digit |-> the digits afterwards]
operatorMinusAssign(d, v) ==
    LET \* after the second loop
        last(t) == IF t.borrow = 1
                   THEN [thrown |-> TRUE, digit |-> t.digit]
                   ELSE [thrown |-> FALSE, digit |-> removeLeadingZeroDigits(t.digit)]
        \* after the first loop
        rest(t) == last(subBorrowLoop(t.digit, Len(v), Len(d), t.borrow))
    IN IF Len(v) > Len(d)
       THEN [thrown |-> TRUE, digit |-> d]
       ELSE rest(minusAssignLoop(d, v, 0, Len(v), 0))

(***************************************************************************)
(* Unsigned: the binary operators.  Each builds the digits of a new        *)
(* Unsigned w from the digits of its arguments.                            *)
(***************************************************************************)

\* operator==(const Unsigned&, const Unsigned&)
RECURSIVE equalLoop(_, _, _, _)
equalLoop(u, v, i, n) ==
    IF i < n THEN (IF At(u, i) # At(v, i) THEN FALSE ELSE equalLoop(u, v, i + 1, n)) ELSE TRUE

operatorEqual(u, v) == IF Len(u) # Len(v) THEN FALSE ELSE equalLoop(u, v, 0, Len(u))

\* operator<(const Unsigned&, const Unsigned&)
RECURSIVE lessLoop(_, _, _)
lessLoop(u, v, i) ==
    IF i # 0
    THEN (IF At(u, i - 1) = At(v, i - 1) THEN lessLoop(u, v, i - 1)
          ELSE At(u, i - 1) < At(v, i - 1))
    ELSE FALSE

operatorLess(u, v) == IF Len(u) # Len(v) THEN Len(u) < Len(v) ELSE lessLoop(u, v, Len(u))

RECURSIVE orLoop(_, _, _, _, _)
orLoop(w, u, v, i, m) ==
    IF i < m THEN orLoop(Put(w, i, BitOr(At(u, i), At(v, i))), u, v, i + 1, m) ELSE w

operatorOr(pu, pv) ==
    LET \* u is the argument of at least as many digits
        longer(u, v) ==
            copyLoop(orLoop(resize(<<>>, Len(u)), u, v, 0, Len(v)), u, Len(v), Len(u))
    IN IF Len(pu) >= Len(pv) THEN longer(pu, pv) ELSE longer(pv, pu)

RECURSIVE andLoop(_, _, _, _, _)
andLoop(w, u, v, i, n) ==
    IF i < n THEN andLoop(Put(w, i, BitAnd(At(u, i), At(v, i))), u, v, i + 1, n) ELSE w

operatorAnd(u, v) ==
    removeLeadingZeroDigits(
        andLoop(resize(<<>>, min(Len(u), Len(v))), u, v, 0, min(Len(u), Len(v))))

RECURSIVE xorLoop(_, _, _, _, _)
xorLoop(w, u, v, i, m) ==
    IF i < m THEN xorLoop(Put(w, i, BitXor(At(u, i), At(v, i))), u, v, i + 1, m) ELSE w

operatorXor(pu, pv) ==
    LET \* u is the argument of at least as many digits
        longer(u, v) ==
            removeLeadingZeroDigits(
                copyLoop(xorLoop(resize(<<>>, Len(u)), u, v, 0, Len(v)), u, Len(v), Len(u)))
    IN IF Len(pu) >= Len(pv) THEN longer(pu, pv) ELSE longer(pv, pu)

\* operator<<, lbs == 0: for (i < n) w.digit[i + ds] = u.digit[i];
RECURSIVE shlMoveLoop(_, _, _, _, _)
shlMoveLoop(w, u, ds, i, n) ==
    IF i < n THEN shlMoveLoop(Put(w, i + ds, At(u, i)), u, ds, i + 1, n) ELSE w

\* operator<<, lbs # 0: for (i < n - 1) w.digit[ds + n - i - 1] = ..
RECURSIVE shlLoop(_, _, _, _, _, _, _)
shlLoop(w, u, n, ds, lbs, rbs, i) ==
    IF i < n - 1
    THEN shlLoop(Put(w, ds + n - i - 1,
                     BitOr(shl(At(u, n - i - 1), lbs), shr(At(u, n - i - 2), rbs))),
                 u, n, ds, lbs, rbs, i + 1)
    ELSE w

\* operator<<(const Unsigned& u, std::size_t s)
operatorShl(u, s) ==
    LET n == Len(u)
        ds == s \div bitsPerDigit
        lbs == s % bitsPerDigit
        rbs == bitsPerDigit - lbs
        \* lbs # 0, the resize and the new top digit
        grown(lz) == IF lbs > lz
                     THEN Put(resize(<<>>, n + ds + 1), n + ds, shr(At(u, n - 1), rbs))
                     ELSE resize(<<>>, n + ds)
    IN IF s = 0 \/ n = 0 THEN u
       ELSE IF lbs = 0
       THEN zeroLoop(shlMoveLoop(resize(<<>>, n + ds), u, ds, 0, n), 0, ds)
       ELSE zeroLoop(Put(shlLoop(grown(Unsigned_countLeadingZeroes(u)), u, n, ds, lbs, rbs, 0),
                         ds, shl(At(u, 0), lbs)),
                     0, ds)

\* operator>>, rbs == 0: for (i < m) w.digit[i] = u.digit[ds + i];
RECURSIVE shrMoveLoop(_, _, _, _, _)
shrMoveLoop(w, u, ds, i, m) ==
    IF i < m THEN shrMoveLoop(Put(w, i, At(u, ds + i)), u, ds, i + 1, m) ELSE w

\* operator>>, rbs # 0: for (i < n - ds - 1) w.digit[i] = ..
RECURSIVE shrLoop(_, _, _, _, _, _, _)
shrLoop(w, u, n, ds, rbs, lbs, i) ==
    IF i < n - ds - 1
    THEN shrLoop(Put(w, i, BitOr(shr(At(u, i + ds), rbs), shl(At(u, i + ds + 1), lbs))),
                 u, n, ds, rbs, lbs, i + 1)
    ELSE w

\* a shift to the right by the whole digits of s alone
operatorShrByWholeDigits(u, s) ==
    operatorShrAssign(u, (s \div bitsPerDigit) * bitsPerDigit)

\* operator>>(const Unsigned& u, std::size_t s)
operatorShr(u, s) ==
    LET n == Len(u)
        ds == s \div bitsPerDigit
        rbs == s % bitsPerDigit
        lbs == bitsPerDigit - rbs
        \* rbs # 0, after the loop: the top digit
        top(w, lz) == IF lz < lbs THEN Put(w, n - ds - 1, shr(At(u, n - 1), rbs)) ELSE w
        \* after nb = n * bitsPerDigit - lz
        counted(lz, nb) ==
            IF s >= nb THEN <<>>
            ELSE IF rbs = 0 THEN shrMoveLoop(resize(<<>>, n - ds), u, ds, 0, n - ds)
            ELSE top(shrLoop(resize(<<>>, (nb - s - 1) \div bitsPerDigit + 1),
                             u, n, ds, rbs, lbs, 0), lz)
        \* after lz = u.countLeadingZeroes()
        measured(lz) == counted(lz, n * bitsPerDigit - lz)
    IN IF s = 0 \/ n = 0 THEN u
       ELSE measured(Unsigned_countLeadingZeroes(u))

\* for (i < m) w.digit[i] = addCarry(u.digit[i], v.digit[i], carry);
RECURSIVE plusLoop(_, _, _, _, _, _)
plusLoop(w, u, v, i, m, carry) ==
    IF i < m
    THEN LET a == addCarry(At(u, i), At(v, i), carry)
         IN plusLoop(Put(w, i, a.ret), u, v, i + 1, m, a.carry)
    ELSE [digit |-> w, carry |-> carry, i |-> i]

\* for (i = m; (i < n) && carry; ++i) w.digit[i] = addCarry(u.digit[i], 0, carry);
RECURSIVE plusCarryLoop(_, _, _, _, _)
plusCarryLoop(w, u, i, n, carry) ==
    IF i < n /\ carry = 1
    THEN LET a == addCarry(At(u, i), 0, carry)
         IN plusCarryLoop(Put(w, i, a.ret), u, i + 1, n, a.carry)
    ELSE [digit |-> w, carry |-> carry, i |-> i]

\* operator+(const Unsigned& pu, const Unsigned& pv)
operatorPlus(pu, pv) ==
    LET \* after the copy of the remaining digits of u
        last(w, carry, n) == IF carry = 1 THEN Put(w, n, 1) ELSE resize(w, n)
        \* after the second loop
        copied(t, u) == last(copyLoop(t.digit, u, t.i, Len(u)), t.carry, Len(u))
        \* after the first loop
        rest(t, u) == copied(plusCarryLoop(t.digit, u, t.i, Len(u), t.carry), u)
        \* u is the argument of at least as many digits
        longer(u, v) == rest(plusLoop(resize(<<>>, Len(u) + 1), u, v, 0, Len(v), 0), u)
    IN IF Len(pu) >= Len(pv) THEN longer(pu, pv) ELSE longer(pv, pu)

\* for (i < m) w.digit[i] = subBorrow(u.digit[i], v.digit[i], borrow);
RECURSIVE minusLoop(_, _, _, _, _, _)
minusLoop(w, u, v, i, m, borrow) ==
    IF i < m
    THEN LET b == subBorrow(At(u, i), At(v, i), borrow)
         IN minusLoop(Put(w, i, b.ret), u, v, i + 1, m, b.borrow)
    ELSE [digit |-> w, borrow |-> borrow, i |-> i]

\* for (i = m; (i < n) && borrow; ++i) w.digit[i] = subBorrow(u.digit[i], 0, borrow);
RECURSIVE minusBorrowLoop(_, _, _, _, _)
minusBorrowLoop(w, u, i, n, borrow) ==
    IF i < n /\ borrow = 1
    THEN LET b == subBorrow(At(u, i), 0, borrow)
         IN minusBorrowLoop(Put(w, i, b.ret), u, i + 1, n, b.borrow)
    ELSE [digit |-> w, borrow |-> borrow, i |-> i]

\* operator-(const Unsigned& u, const Unsigned& v)
\* [thrown |-> std::invalid_argument was thrown, digit |-> the digits of w]
operatorMinus(u, v) ==
    LET n == Len(u)
        \* after the copy of the remaining digits of u
        last(w, borrow) ==
            IF borrow # 0 THEN [thrown |-> TRUE]
            ELSE [thrown |-> FALSE, digit |-> removeLeadingZeroDigits(w)]
        \* after the second loop
        copied(t) == last(copyLoop(t.digit, u, t.i, n), t.borrow)
        \* after the first loop
        rest(t) == copied(minusBorrowLoop(t.digit, u, t.i, n, t.borrow))
    IN IF Len(v) > n THEN [thrown |-> TRUE]
       ELSE rest(minusLoop(resize(<<>>, n), u, v, 0, Len(v), 0))

\* operator*, inner loop: w.digit[i + j] = multiplyAdd2(u[j], v[i], w[i + j], carry);
RECURSIVE timesInnerLoop(_, _, _, _, _, _)
timesInnerLoop(w, u, vi, i, j, carry) ==
    IF j < Len(u)
    THEN LET m == multiplyAdd2(At(u, j), vi, At(w, i + j), carry)
         IN timesInnerLoop(Put(w, i + j, m.ret), u, vi, i, j + 1, m.carry)
    ELSE [digit |-> w, carry |-> carry]

\* operator*, outer loop
RECURSIVE timesLoop(_, _, _, _)
timesLoop(w, u, v, i) ==
    LET \* after the inner loop: w.digit[i + n] += carry;
        carried(t, k) == Put(t.digit, k, ToDigit(At(t.digit, k) + t.carry))
    IN IF i < Len(v)
       THEN timesLoop(carried(timesInnerLoop(w, u, At(v, i), i, 0, 0), i + Len(u)), u, v, i + 1)
       ELSE w

\* operator*(const Unsigned& u, const Unsigned& v)
operatorTimes(u, v) ==
    removeLeadingZeroDigits(
        timesLoop(zeroLoop(resize(<<>>, Len(u) + Len(v)), 0, Len(u) + Len(v)), u, v, 0))

\* operator/(const Unsigned& u, const Unsigned& v)
operatorDivide(u, v) ==
    LET quot(qr) == IF qr.thrown THEN [thrown |-> TRUE]
                    ELSE [thrown |-> FALSE, digit |-> qr.quot]
    IN quot(div(u, v))

\* operator%(const Unsigned& u, const Unsigned& v)
operatorModulo(u, v) ==
    LET rem(qr) == IF qr.thrown THEN [thrown |-> TRUE]
                   ELSE [thrown |-> FALSE, digit |-> qr.rem]
    IN rem(div(u, v))

(***************************************************************************)
(* The values the model draws operands from, and what a digit sequence     *)
(* stands for.                                                             *)
(***************************************************************************)

\* no leading zero digit: the representation invariant of Unsigned
Canonical(d) == Len(d) = 0 \/ d[Len(d)] # 0

\* Unsigned::initFromIntegral(T val) for a type T of n digits
RECURSIVE initFromIntegralLoop(_, _, _)
initFromIntegralLoop(d, i, val) ==
    IF val # 0
    THEN initFromIntegralLoop(Put(d, i, ToDigit(val)), i + 1, val \div Base)
    ELSE resize(d, i)

initFromIntegral(val, n) ==
    initFromIntegralLoop(resize(<<>>, IF n > 1 THEN n ELSE 1), 0, val)

\* the Unsigned values constructed from the integers of at most n digits
UnsignedUpTo(n) == {initFromIntegral(val, n) : val \in 0..(Base ^ n - 1)}

\* the natural number a digit sequence represents
RECURSIVE Value(_)
Value(d) == IF Len(d) = 0 THEN 0 ELSE d[1] + Base * Value(Tail(d))

(***************************************************************************)
(* Division of naturals: u and v are drawn, then div(u, v) is called.      *)
(***************************************************************************)

\* the digit width of the build the division is checked in
DivBits == 2

\* the largest number of digits of a dividend and of a divisor
MaxDividendDigits == 4
MaxDivisorDigits == 3

InitDiv ==
    /\ bitsPerDigit = DivBits
    /\ op = "init"
    /\ x \in UnsignedUpTo(MaxDividendDigits)
    /\ y \in UnsignedUpTo(MaxDivisorDigits)
    /\ shift = 0
    /\ old = x
    /\ out = <<>>

CallDiv ==
    /\ op = "init"
    /\ op' = "div"
    /\ out' = div(x, y)
    /\ UNCHANGED <<bitsPerDigit, x, y, shift, old>>

SpecDiv == InitDiv /\ [][CallDiv]_vars

\* C1: for all naturals u and all non-zero naturals v, div(u, v) returns quot
\* and rem with u == quot * v + rem and rem < v, on every path of div.
DivisionIdentity ==
    (op = "div" /\ Len(y) # 0) =>
        /\ ~out.thrown
        /\ Value(x) = Value(out.quot) * Value(y) + Value(out.rem)
        /\ Value(out.rem) < Value(y)

\* the quotient digit div estimates for the only quotient position of a
\* dividend that has as many digits as the divisor
FirstEstimate(u, v, d1) ==
    findDivQuotient(Put(resize(u, Len(u) + 1), Len(u), 0), d1.ls, d1.vn1, d1.vn2, Len(u))

\* a multi-digit division whose estimate was one too large, so that step D6
\* added the divisor back
DivisionAddBackReached ==
    /\ op = "div"
    /\ Len(y) >= 2
    /\ Len(x) = Len(y)
    /\ Value(out.quot) = FirstEstimate(x, y, divNormalized(y, Unsigned_countLeadingZeroes(y))) - 1
    /\ Value(out.rem) # 0

(***************************************************************************)
(* Unsigned as a register: x is an Unsigned object.  A statement applies   *)
(* one public operation to it with an argument constructed for the         *)
(* statement; at the end of the statement the argument and the returned    *)
(* temporary are destroyed and the next statement can run.                 *)
(***************************************************************************)

\* the digit width of the build the Unsigned operations are checked in
UnsignedBits == 2

\* the largest number of digits of the object, of an argument, and the
\* largest shift count
MaxUnsignedDigits == 3
MaxArgumentDigits == 2
MaxShift == 5

\* what an operation that returned normally hands back
returned(d) == [thrown |-> FALSE, digit |-> d]

InitUnsigned ==
    /\ bitsPerDigit = UnsignedBits
    /\ op = "none"
    /\ x \in UnsignedUpTo(MaxUnsignedDigits)
    /\ y = <<>>
    /\ shift = 0
    /\ old = x
    /\ out = [thrown |-> FALSE]

\* a member operation named name ran with argument v (shift count sh), left
\* the digits d in *this and handed back r
Member(name, v, sh, d, r) ==
    /\ Len(d) <= MaxUnsignedDigits
    /\ op' = name
    /\ y' = v
    /\ shift' = sh
    /\ old' = x
    /\ x' = d
    /\ out' = r
    /\ UNCHANGED bitsPerDigit

\* a free operator named name ran on x and v (shift count sh) and handed back r
Free(name, v, sh, r) ==
    /\ op' = name
    /\ y' = v
    /\ shift' = sh
    /\ old' = x
    /\ out' = r
    /\ UNCHANGED <<bitsPerDigit, x>>

\* a member operation that throws, or changes *this and returns it; r is
\* [thrown, digit |-> the digits left in *this]
Assigned(name, v, sh, r) ==
    Member(name, v, sh, r.digit, IF r.thrown THEN [thrown |-> TRUE] ELSE r)

\* operator*=, operator/=, operator%=: *this = std::move(w) unless the free
\* operator threw
MoveAssigned(name, v, r) == Member(name, v, 0, IF r.thrown THEN x ELSE r.digit, r)

\* the statement ends: the argument and the returned temporary are destroyed
EndOfStatement ==
    /\ op # "none"
    /\ op' = "none"
    /\ y' = <<>>
    /\ shift' = 0
    /\ old' = x
    /\ out' = [thrown |-> FALSE]
    /\ UNCHANGED <<bitsPerDigit, x>>

\* no statement is running
Ready == op = "none"

\* the arguments constructed for a statement
Arguments == UnsignedUpTo(MaxArgumentDigits)

\* one statement: a public operation of Unsigned on x, or the end of one
NextUnsigned ==
    \* operator++(), operator++(int), operator--(), operator--(int)
    \/ Ready /\ Assigned("++x", <<>>, 0, returned(addDigit(x, 1)))
    \/ Ready /\ Member("x++", <<>>, 0, addDigit(x, 1), returned(x))
    \/ Ready /\ Assigned("--x", <<>>, 0, subtractDigit(x, 1))
    \/ Ready /\ Member("x--", <<>>, 0, subtractDigit(x, 1).digit,
                       IF subtractDigit(x, 1).thrown THEN [thrown |-> TRUE] ELSE returned(x))
    \* operator|=, operator&=, operator^=
    \/ Ready /\ \E v \in Arguments : Assigned("|=", v, 0, returned(operatorOrAssign(x, v)))
    \/ Ready /\ \E v \in Arguments : Assigned("&=", v, 0, returned(operatorAndAssign(x, v)))
    \/ Ready /\ \E v \in Arguments : Assigned("^=", v, 0, returned(operatorXorAssign(x, v)))
    \* operator<<=, operator>>=
    \/ Ready /\ \E sh \in 0..MaxShift :
                    Assigned("<<=", <<>>, sh, returned(operatorShlAssign(x, sh)))
    \/ Ready /\ \E sh \in 0..MaxShift :
                    Assigned(">>=", <<>>, sh, returned(operatorShrAssign(x, sh)))
    \* operator+=, operator-=
    \/ Ready /\ \E v \in Arguments : Assigned("+=", v, 0, returned(operatorPlusAssign(x, v)))
    \/ Ready /\ \E v \in Arguments : Assigned("-=", v, 0, operatorMinusAssign(x, v))
    \* operator*=, operator/=, operator%=
    \/ Ready /\ \E v \in Arguments : MoveAssigned("*=", v, returned(operatorTimes(x, v)))
    \/ Ready /\ \E v \in Arguments : MoveAssigned("/=", v, operatorDivide(x, v))
    \/ Ready /\ \E v \in Arguments : MoveAssigned("%=", v, operatorModulo(x, v))
    \* Unsigned::div: *this becomes the quotient, the remainder is returned
    \/ Ready /\ \E v \in Arguments :
                    Member("x.div", v, 0, IF div(x, v).thrown THEN x ELSE div(x, v).quot,
                           operatorModulo(x, v))
    \* the free operators
    \/ Ready /\ \E v \in Arguments : Free("|", v, 0, returned(operatorOr(x, v)))
    \/ Ready /\ \E v \in Arguments : Free("&", v, 0, returned(operatorAnd(x, v)))
    \/ Ready /\ \E v \in Arguments : Free("^", v, 0, returned(operatorXor(x, v)))
    \/ Ready /\ \E sh \in 0..MaxShift : Free("<<", <<>>, sh, returned(operatorShl(x, sh)))
    \/ Ready /\ \E sh \in 0..MaxShift : Free(">>", <<>>, sh, returned(operatorShr(x, sh)))
    \/ Ready /\ \E v \in Arguments : Free("+", v, 0, returned(operatorPlus(x, v)))
    \/ Ready /\ \E v \in Arguments : Free("-", v, 0, operatorMinus(x, v))
    \/ Ready /\ \E v \in Arguments : Free("*", v, 0, returned(operatorTimes(x, v)))
    \/ Ready /\ \E v \in Arguments : Free("/", v, 0, operatorDivide(x, v))
    \/ Ready /\ \E v \in Arguments : Free("%", v, 0, operatorModulo(x, v))
    \/ EndOfStatement

SpecUnsigned == InitUnsigned /\ [][NextUnsigned]_vars

\* C3: after any sequence of public Unsigned operations, every resulting
\* Unsigned either has no digits or has a non-zero most significant digit.
UnsignedHasNoLeadingZeroDigit ==
    /\ Canonical(x)
    /\ (~Ready /\ ~out.thrown => Canonical(out.digit))

\* C4: after the in-place shift u <<= s the value of u equals the old value
\* of u times 2^s, the same result as the binary operator u << s gives.
ShlAssignMultipliesByPowerOfTwo ==
    (op = "<<=") =>
        /\ Value(x) = Value(old) * (2 ^ shift)
        /\ x = operatorShl(old, shift)

(***************************************************************************)
(* Signed: a magnitude val (an Unsigned) and a sign in {-1, 0, 1}.         *)
(* A Signed is the record [val, sign]; an operation that can throw returns *)
(* a record with the field thrown.                                         *)
(***************************************************************************)

\* Signed::Signed(std::int32_t i) and Signed(std::int64_t i) for an integer
\* type of n digits
Signed_fromIntegral(i, n) ==
    [val |-> initFromIntegral(IF i < 0 THEN -i ELSE i, n),
     sign |-> IF i > 0 THEN 1 ELSE IF i < 0 THEN -1 ELSE 0]

\* Signed::Signed(Unsigned&& other)
Signed_fromUnsigned(d) == [val |-> d, sign |-> IF Len(d) = 0 THEN 0 ELSE 1]

\* Signed::operator++()
Signed_operatorIncrement(u) ==
    LET \* case -1, after --val
        decremented(r) ==
            [thrown |-> r.thrown, val |-> r.digit,
             sign |-> IF ~r.thrown /\ Len(r.digit) = 0 THEN 0 ELSE u.sign]
    IN IF u.sign = -1 THEN decremented(subtractDigit(u.val, 1))
       ELSE [thrown |-> FALSE, val |-> addDigit(u.val, 1), sign |-> 1]

\* Signed::operator--()
Signed_operatorDecrement(u) ==
    LET \* case 1, after --val
        decremented(r) ==
            [thrown |-> r.thrown, val |-> r.digit,
             sign |-> IF ~r.thrown /\ Len(r.digit) = 0 THEN 0 ELSE u.sign]
    IN IF u.sign = 1 THEN decremented(subtractDigit(u.val, 1))
       ELSE [thrown |-> FALSE, val |-> addDigit(u.val, 1), sign |-> -1]

\* Signed::operator+=(const Signed& v)
Signed_operatorPlusAssign(u, v) ==
    LET \* after val = v.val - val
        subtracted(w) == [val |-> w, sign |-> IF Len(w) = 0 THEN 0 ELSE v.sign]
    IN IF u.sign = v.sign
       THEN [val |-> operatorPlusAssign(u.val, v.val), sign |-> u.sign]
       ELSE IF operatorLess(v.val, u.val)
       THEN [val |-> operatorMinusAssign(u.val, v.val).digit, sign |-> u.sign]
       ELSE subtracted(operatorMinus(v.val, u.val).digit)

\* Signed::operator-=(const Signed& v)
Signed_operatorMinusAssign(u, v) ==
    LET \* after val = v.val - val
        subtracted(w) == [val |-> w, sign |-> IF Len(w) = 0 THEN 0 ELSE -v.sign]
    IN IF -u.sign = v.sign
       THEN [val |-> operatorPlusAssign(u.val, v.val), sign |-> u.sign]
       ELSE IF operatorLess(v.val, u.val)
       THEN [val |-> operatorMinusAssign(u.val, v.val).digit, sign |-> u.sign]
       ELSE subtracted(operatorMinus(v.val, u.val).digit)

\* Signed::operator*=(const Signed& v)
Signed_operatorTimesAssign(u, v) ==
    [val |-> operatorTimes(u.val, v.val), sign |-> u.sign * v.sign]

\* Signed::operator/=(const Signed& v)
Signed_operatorDivideAssign(u, v) ==
    LET \* after val /= v.val
        divided(r) ==
            IF r.thrown THEN [thrown |-> TRUE, val |-> u.val, sign |-> u.sign]
            ELSE [thrown |-> FALSE, val |-> r.digit, sign |-> u.sign * v.sign]
    IN divided(operatorDivide(u.val, v.val))

\* Signed::operator%=(const Signed& v)
Signed_operatorModuloAssign(u, v) ==
    LET \* after val %= v.val
        divided(r) ==
            IF r.thrown THEN [thrown |-> TRUE, val |-> u.val, sign |-> u.sign]
            ELSE [thrown |-> FALSE, val |-> r.digit, sign |-> u.sign]
    IN divided(operatorModulo(u.val, v.val))

\* Signed::div(const Signed& v): quot is what *this becomes, rem is returned
Signed_memberDiv(u, v) ==
    LET \* after val.div(v.val)
        divided(qr) ==
            IF qr.thrown THEN [thrown |-> TRUE, quot |-> u]
            ELSE [thrown |-> FALSE,
                  quot |-> [val |-> qr.quot, sign |-> u.sign * v.sign],
                  rem |-> [val |-> Signed_fromUnsigned(qr.rem).val, sign |-> u.sign]]
    IN divided(div(u.val, v.val))

\* operator==(const Signed& u, const Signed& v)
Signed_operatorEqual(u, v) == (u.sign = v.sign) /\ operatorEqual(u.val, v.val)

\* operator<(const Signed& u, const Signed& v)
Signed_operatorLess(u, v) ==
    IF u.sign # v.sign THEN u.sign < v.sign ELSE operatorLess(u.val, v.val)

\* operator>=(const Signed& u, const Signed& v)
Signed_operatorGreaterEqual(u, v) == ~Signed_operatorLess(u, v)

\* operator>(const Signed& u, const Signed& v)
Signed_operatorGreater(u, v) == Signed_operatorLess(v, u)

\* operator<=(const Signed& u, const Signed& v)
Signed_operatorLessEqual(u, v) == ~Signed_operatorGreater(u, v)

\* operator-(const Signed& u)
Signed_operatorNegate(u) == [val |-> u.val, sign |-> -u.sign]

\* operator+(const Signed& u, const Signed& v)
Signed_operatorPlus(u, v) ==
    LET \* after w.val = v.val - u.val
        subtracted(w) == [val |-> w, sign |-> IF Len(w) = 0 THEN 0 ELSE v.sign]
    IN IF u.sign = v.sign
       THEN [val |-> operatorPlus(u.val, v.val), sign |-> u.sign]
       ELSE IF operatorLess(v.val, u.val)
       THEN [val |-> operatorMinus(u.val, v.val).digit, sign |-> u.sign]
       ELSE subtracted(operatorMinus(v.val, u.val).digit)

\* a subtraction of Signed that keeps the sign of the subtrahend
Signed_operatorMinusUnflipped(u, v) == Signed_operatorPlus(u, v)

\* operator-(const Signed& u, const Signed& v)
Signed_operatorMinus(u, v) ==
    LET \* after w.val = v.val - u.val
        subtracted(w) == [val |-> w, sign |-> IF Len(w) = 0 THEN 0 ELSE -v.sign]
    IN IF -u.sign = v.sign
       THEN [val |-> operatorPlus(u.val, v.val), sign |-> u.sign]
       ELSE IF operatorLess(v.val, u.val)
       THEN [val |-> operatorMinus(u.val, v.val).digit, sign |-> u.sign]
       ELSE subtracted(operatorMinus(v.val, u.val).digit)

\* operator*(const Signed& u, const Signed& v)
Signed_operatorTimes(u, v) ==
    [val |-> operatorTimes(u.val, v.val), sign |-> u.sign * v.sign]

\* div(const Signed& u, const Signed& v)
Signed_div(u, v) ==
    LET \* after uqr = ::bn::div(u.val, v.val)
        divided(uqr) ==
            IF uqr.thrown THEN [thrown |-> TRUE]
            ELSE [thrown |-> FALSE,
                  quot |-> [val |-> Signed_fromUnsigned(uqr.quot).val, sign |-> u.sign * v.sign],
                  rem |-> [val |-> Signed_fromUnsigned(uqr.rem).val, sign |-> u.sign]]
    IN divided(div(u.val, v.val))

\* operator/(const Signed& u, const Signed& v)
Signed_operatorDivide(u, v) ==
    LET quot(qr) == IF qr.thrown THEN qr
                    ELSE [thrown |-> FALSE, val |-> qr.quot.val, sign |-> qr.quot.sign]
    IN quot(Signed_div(u, v))

\* operator%(const Signed& u, const Signed& v)
Signed_operatorModulo(u, v) ==
    LET rem(qr) == IF qr.thrown THEN qr
                   ELSE [thrown |-> FALSE, val |-> qr.rem.val, sign |-> qr.rem.sign]
    IN rem(Signed_div(u, v))

(***************************************************************************)
(* Signed as a register: x is a Signed object, and a statement applies one *)
(* public operation of Signed to it.                                       *)
(***************************************************************************)

\* the digit width of the build the Signed operations are checked in
SignedBits == 2

\* the largest number of digits of the magnitude of the object and of an
\* argument
MaxSignedDigits == 2
MaxSignedArgumentDigits == 1

\* the Signed values constructed from the integers whose magnitude has at
\* most n digits
SignedUpTo(n) == {Signed_fromIntegral(i, n + 1) : i \in (1 - Base ^ n)..(Base ^ n - 1)}

\* the arguments constructed for a statement
SignedArguments == SignedUpTo(MaxSignedArgumentDigits)

\* the integer a Signed stands for
IntValue(u) == u.sign * Value(u.val)

\* the invariant of Signed: the sign is 0 exactly when the magnitude is zero
SignedValid(u) == (u.sign = 0) <=> (Len(u.val) = 0)

InitSigned ==
    /\ bitsPerDigit = SignedBits
    /\ op = "none"
    /\ x \in SignedUpTo(MaxSignedDigits)
    /\ y = <<>>
    /\ shift = 0
    /\ old = x
    /\ out = [thrown |-> FALSE]

\* a Signed handed back by an operation that returned normally
returnedSigned(u) == [thrown |-> FALSE, val |-> u.val, sign |-> u.sign]

\* a member operation of Signed named name ran with argument v, left u in
\* *this and handed back r
SignedMember(name, v, u, r) ==
    /\ Len(u.val) <= MaxSignedDigits
    /\ op' = name
    /\ y' = v
    /\ old' = x
    /\ x' = u
    /\ out' = r
    /\ UNCHANGED <<bitsPerDigit, shift>>

\* a member operation that throws, or changes *this and returns it; r is
\* [thrown, val, sign] with the value left in *this
SignedAssigned(name, v, r) ==
    SignedMember(name, v, [val |-> r.val, sign |-> r.sign],
                 IF r.thrown THEN [thrown |-> TRUE] ELSE r)

\* one statement: a public operation of Signed on x, or the end of one
NextSigned ==
    \* operator++(), operator++(int), operator--(), operator--(int)
    \/ Ready /\ SignedAssigned("++x", <<>>, Signed_operatorIncrement(x))
    \/ Ready /\ SignedMember("x++", <<>>,
                             [val |-> Signed_operatorIncrement(x).val,
                              sign |-> Signed_operatorIncrement(x).sign],
                             IF Signed_operatorIncrement(x).thrown
                             THEN [thrown |-> TRUE] ELSE returnedSigned(x))
    \/ Ready /\ SignedAssigned("--x", <<>>, Signed_operatorDecrement(x))
    \/ Ready /\ SignedMember("x--", <<>>,
                             [val |-> Signed_operatorDecrement(x).val,
                              sign |-> Signed_operatorDecrement(x).sign],
                             IF Signed_operatorDecrement(x).thrown
                             THEN [thrown |-> TRUE] ELSE returnedSigned(x))
    \* operator+=, operator-=, operator*=, operator/=, operator%=
    \/ Ready /\ \E v \in SignedArguments :
                    SignedAssigned("+=", v, returnedSigned(Signed_operatorPlusAssign(x, v)))
    \/ Ready /\ \E v \in SignedArguments :
                    SignedAssigned("-=", v, returnedSigned(Signed_operatorMinusAssign(x, v)))
    \/ Ready /\ \E v \in SignedArguments :
                    SignedAssigned("*=", v, returnedSigned(Signed_operatorTimesAssign(x, v)))
    \/ Ready /\ \E v \in SignedArguments :
                    SignedAssigned("/=", v, Signed_operatorDivideAssign(x, v))
    \/ Ready /\ \E v \in SignedArguments :
                    SignedAssigned("%=", v, Signed_operatorModuloAssign(x, v))
    \* Signed::div: *this becomes the quotient, the remainder is returned
    \/ Ready /\ \E v \in SignedArguments :
                    SignedMember("x.div", v, Signed_memberDiv(x, v).quot,
                                 IF Signed_memberDiv(x, v).thrown THEN [thrown |-> TRUE]
                                 ELSE returnedSigned(Signed_memberDiv(x, v).rem))
    \* the comparison operators
    \/ Ready /\ \E v \in SignedArguments :
                    Free("==", v, 0, [thrown |-> FALSE, holds |-> Signed_operatorEqual(x, v)])
    \/ Ready /\ \E v \in SignedArguments :
                    Free("<", v, 0, [thrown |-> FALSE, holds |-> Signed_operatorLess(x, v)])
    \/ Ready /\ \E v \in SignedArguments :
                    Free(">=", v, 0,
                         [thrown |-> FALSE, holds |-> Signed_operatorGreaterEqual(x, v)])
    \/ Ready /\ \E v \in SignedArguments :
                    Free(">", v, 0, [thrown |-> FALSE, holds |-> Signed_operatorGreater(x, v)])
    \/ Ready /\ \E v \in SignedArguments :
                    Free("<=", v, 0, [thrown |-> FALSE, holds |-> Signed_operatorLessEqual(x, v)])
    \* unary minus and the binary arithmetic operators
    \/ Ready /\ Free("-x", <<>>, 0, returnedSigned(Signed_operatorNegate(x)))
    \/ Ready /\ \E v \in SignedArguments :
                    Free("+", v, 0, returnedSigned(Signed_operatorPlus(x, v)))
    \/ Ready /\ \E v \in SignedArguments :
                    Free("-", v, 0, returnedSigned(Signed_operatorMinus(x, v)))
    \/ Ready /\ \E v \in SignedArguments :
                    Free("*", v, 0, returnedSigned(Signed_operatorTimes(x, v)))
    \/ Ready /\ \E v \in SignedArguments : Free("/", v, 0, Signed_operatorDivide(x, v))
    \/ Ready /\ \E v \in SignedArguments : Free("%", v, 0, Signed_operatorModulo(x, v))
    \/ Ready /\ \E v \in SignedArguments : Free("div", v, 0, Signed_div(x, v))
    \/ EndOfStatement

SpecSigned == InitSigned /\ [][NextSigned]_vars

\* C2: after any sequence of public Signed operations every resulting
\* Signed, the fields of a returned QR included, has sign 0 exactly when its
\* magnitude is zero.
SignedSignIsZeroIffMagnitudeIsZero ==
    /\ SignedValid(x)
    /\ (op \in {"++x", "x++", "--x", "x--", "+=", "-=", "*=", "/=", "%=", "x.div",
                "-x", "+", "-", "*", "/", "%"} /\ ~out.thrown) => SignedValid(out)
    /\ (op = "div" /\ ~out.thrown) => (SignedValid(out.quot) /\ SignedValid(out.rem))

\* truncating division of integers, b # 0
TruncQuot(a, b) ==
    (IF (a < 0) = (b < 0) THEN 1 ELSE -1)
        * ((IF a < 0 THEN -a ELSE a) \div (IF b < 0 THEN -b ELSE b))

TruncRem(a, b) == a - b * TruncQuot(a, b)

\* C5: for all Signed u and non-zero v, div(u, v).quot compares equal to the
\* Signed trunc(u / v) and div(u, v).rem to the Signed u - v * trunc(u / v);
\* Signed::div, operator/ and operator% return the same values.
SignedDivTruncates ==
    (op \in {"div", "x.div", "/", "%"} /\ SignedValid(old) /\ SignedValid(y) /\ y.sign # 0) =>
        /\ ~out.thrown
        /\ op = "div" =>
            /\ Signed_operatorEqual(out.quot,
                   Signed_fromIntegral(TruncQuot(IntValue(old), IntValue(y)), MaxSignedDigits + 1))
            /\ Signed_operatorEqual(out.rem,
                   Signed_fromIntegral(TruncRem(IntValue(old), IntValue(y)), MaxSignedDigits + 1))
        /\ op = "x.div" =>
            /\ Signed_operatorEqual(x,
                   Signed_fromIntegral(TruncQuot(IntValue(old), IntValue(y)), MaxSignedDigits + 1))
            /\ Signed_operatorEqual([val |-> out.val, sign |-> out.sign],
                   Signed_fromIntegral(TruncRem(IntValue(old), IntValue(y)), MaxSignedDigits + 1))
        /\ op = "/" =>
            Signed_operatorEqual([val |-> out.val, sign |-> out.sign],
                Signed_fromIntegral(TruncQuot(IntValue(old), IntValue(y)), MaxSignedDigits + 1))
        /\ op = "%" =>
            Signed_operatorEqual([val |-> out.val, sign |-> out.sign],
                Signed_fromIntegral(TruncRem(IntValue(old), IntValue(y)), MaxSignedDigits + 1))

\* C6: for all Signed u and v, u < v holds exactly when the integer u is
\* less than the integer v, and >, <=, >= are consistent with this order.
SignedLessIsIntegerOrder ==
    (op \in {"<", ">", "<=", ">="} /\ SignedValid(old) /\ SignedValid(y)) =>
        /\ op = "<" => (out.holds <=> IntValue(old) < IntValue(y))
        /\ op = ">" => (out.holds <=> IntValue(old) > IntValue(y))
        /\ op = "<=" => (out.holds <=> IntValue(old) <= IntValue(y))
        /\ op = ">=" => (out.holds <=> IntValue(old) >= IntValue(y))

(***************************************************************************)
(* Rational: a numerator num (a Signed) and a denominator den (an          *)
(* Unsigned). A Rational is the record [num, den]; an operation that can   *)
(* throw returns a record with the field thrown.                           *)
(***************************************************************************)

RECURSIVE ctzDigitLoop(_, _, _)
\* the loop of Unsigned::ctz over the zero digits, and the statement after it
ctzDigitLoop(d, i, ret) ==
    IF i < Len(d) /\ At(d, i) = 0 THEN ctzDigitLoop(d, i + 1, ret + bitsPerDigit)
    ELSE IF i < Len(d) THEN ret + countTrailingZeroes(At(d, i))
    ELSE ret

\* Unsigned::ctz() const
Unsigned_ctz(d) == ctzDigitLoop(d, 0, 0)

RECURSIVE bgcdLoop(_, _)
\* the do-while loop of bgcd; the result is wu when the loop ends
bgcdLoop(wu, wv) ==
    LET \* after wv -= wu: the loop condition wv != 0
        subtracted(a, b) ==
            IF ~operatorEqual(b, initFromIntegral(0, 1)) THEN bgcdLoop(a, b) ELSE a
        \* after wv >>= vtz: the swap if wu > wv, then wv -= wu
        shifted(b) ==
            IF operatorLess(b, wu)
            THEN subtracted(b, operatorMinusAssign(wu, b).digit)
            ELSE subtracted(wu, operatorMinusAssign(b, wu).digit)
    IN shifted(operatorShrAssign(wv, Unsigned_ctz(wv)))

\* bgcd(const Unsigned& u, const Unsigned& v), which gcd(u, v) returns
bgcd(u, v) ==
    LET \* after shift = std::min(utz, vtz)
        counted(utz, sh) ==
            operatorShl(bgcdLoop(operatorShrAssign(u, utz), operatorShrAssign(v, sh)), sh)
    IN IF Len(u) = 0 THEN v
       ELSE IF Len(v) = 0 THEN u
       ELSE counted(Unsigned_ctz(u), min(Unsigned_ctz(u), Unsigned_ctz(v)))

\* Rational::reduce() without the division by the gcd
Rational_reduceSkipped(r) == r

\* Rational::reduce()
Rational_reduce(r) ==
    LET \* after Unsigned d = gcd(num.abs(), den)
        divided(n, d) ==
            [num |-> [val |-> n.val, sign |-> n.sign], den |-> operatorDivide(r.den, d).digit]
        reduced(d) == divided(Signed_operatorDivideAssign(r.num, Signed_fromUnsigned(d)), d)
    IN reduced(bgcd(r.num.val, r.den))

\* a Rational handed back by an operation that returned normally
returnedRational(r) == [thrown |-> FALSE, num |-> r.num, den |-> r.den]

\* Rational::Rational()
Rational_default == [num |-> [val |-> <<>>, sign |-> 0], den |-> initFromIntegral(1, 1)]

\* Rational::Rational(const Signed& num, const Unsigned& den)
Rational_construct(n, d) ==
    IF Len(d) = 0 THEN [thrown |-> TRUE]
    ELSE returnedRational(Rational_reduce([num |-> n, den |-> d]))

\* Rational::Rational(const Signed& v)
Rational_fromSigned(v) == [num |-> v, den |-> initFromIntegral(1, 1)]

\* Rational::reciprocal() const
Rational_reciprocal(u) ==
    IF Len(u.num.val) = 0 THEN [thrown |-> TRUE]
    ELSE [thrown |-> FALSE,
          num |-> [val |-> Signed_fromUnsigned(u.den).val, sign |-> u.num.sign],
          den |-> u.num.val]

\* Rational::operator+=(const Rational& v); same says that v is *this, and
\* then v.num is read after num has changed
Rational_operatorPlusAssign(u, v, same) ==
    LET \* after num += v.num * den
        added(n) == Rational_reduce([num |-> n, den |-> operatorTimes(u.den, v.den)])
        \* after num *= v.den
        multiplied(n) ==
            added(Signed_operatorPlusAssign(n,
                      Signed_operatorTimes(IF same THEN n ELSE v.num,
                                           Signed_fromUnsigned(u.den))))
    IN multiplied(Signed_operatorTimesAssign(u.num, Signed_fromUnsigned(v.den)))

\* Rational::operator-=(const Rational& v)
Rational_operatorMinusAssign(u, v, same) ==
    LET \* after num -= v.num * den
        subtracted(n) == Rational_reduce([num |-> n, den |-> operatorTimes(u.den, v.den)])
        \* after num *= v.den
        multiplied(n) ==
            subtracted(Signed_operatorMinusAssign(n,
                           Signed_operatorTimes(IF same THEN n ELSE v.num,
                                                Signed_fromUnsigned(u.den))))
    IN multiplied(Signed_operatorTimesAssign(u.num, Signed_fromUnsigned(v.den)))

\* Rational::operator*=(const Rational& v)
Rational_operatorTimesAssign(u, v) ==
    Rational_reduce([num |-> Signed_operatorTimesAssign(u.num, v.num),
                     den |-> operatorTimes(u.den, v.den)])

\* Rational::operator/=(const Rational& v); *this is left as it was when the
\* operator throws
Rational_operatorDivideAssign(u, v, same) ==
    LET \* after num *= v.den: den *= v.num.abs(), num.sign *= v.num.sign
        multiplied(n) ==
            Rational_reduce(
                [num |-> [val |-> n.val,
                          sign |-> n.sign * (IF same THEN n.sign ELSE v.num.sign)],
                 den |-> operatorTimes(u.den, IF same THEN n.val ELSE v.num.val)])
    IN IF Len(v.num.val) = 0 THEN [thrown |-> TRUE, num |-> u.num, den |-> u.den]
       ELSE returnedRational(
                multiplied(Signed_operatorTimesAssign(u.num, Signed_fromUnsigned(v.den))))

\* operator==(const Rational& u, const Rational& v)
Rational_operatorEqual(u, v) ==
    Signed_operatorEqual(u.num, v.num) /\ operatorEqual(u.den, v.den)

\* operator-(const Rational& u)
Rational_operatorNegate(u) == Rational_construct(Signed_operatorNegate(u.num), u.den)

\* operator+(const Rational& u, const Rational& v)
Rational_operatorPlus(u, v) ==
    Rational_construct(
        Signed_operatorPlus(Signed_operatorTimes(u.num, Signed_fromUnsigned(v.den)),
                            Signed_operatorTimes(v.num, Signed_fromUnsigned(u.den))),
        operatorTimes(u.den, v.den))

\* operator-(const Rational& u, const Rational& v)
Rational_operatorMinus(u, v) ==
    Rational_construct(
        Signed_operatorMinus(Signed_operatorTimes(u.num, Signed_fromUnsigned(v.den)),
                             Signed_operatorTimes(v.num, Signed_fromUnsigned(u.den))),
        operatorTimes(u.den, v.den))

\* operator*(const Rational& u, const Rational& v)
Rational_operatorTimes(u, v) ==
    Rational_construct(Signed_operatorTimes(u.num, v.num), operatorTimes(u.den, v.den))

\* operator/(const Rational& u, const Rational& v)
Rational_operatorDivide(u, v) ==
    LET \* after the construction of w: w.num.sign = u.num.sgn() * v.num.sgn()
        constructed(w) ==
            IF w.thrown THEN w
            ELSE [thrown |-> FALSE,
                  num |-> [val |-> w.num.val, sign |-> u.num.sign * v.num.sign],
                  den |-> w.den]
    IN IF Len(v.num.val) = 0 THEN [thrown |-> TRUE]
       ELSE constructed(Rational_construct(
                Signed_fromUnsigned(operatorTimes(u.num.val, v.den)),
                operatorTimes(u.den, v.num.val)))

(***************************************************************************)
(* Rational as a register: x is a Rational object, and a statement applies *)
(* one constructor or arithmetic operation of Rational to it.              *)
(***************************************************************************)

\* the digit width of the build the Rational operations are checked in
RationalBits == 2

\* the largest number of digits of the numerator and of the denominator of
\* the object, and of the numerator and of the denominator of an argument
MaxRationalDigits == 2
MaxRationalArgumentDigits == 1

\* the Rational an operation that returned normally handed back
produced(r) == [num |-> r.num, den |-> r.den]

\* the numerators handed to the constructor: the Signed values constructed
\* from integers, and the zero quotients and remainders with a non-zero
\* sign that the division of Signed hands back
Numerators ==
    SignedUpTo(MaxRationalArgumentDigits)
        \cup {[val |-> <<>>, sign |-> 1], [val |-> <<>>, sign |-> -1]}

\* the Rational arguments constructed for a statement
RationalArguments ==
    {produced(Rational_construct(n, d)) :
        n \in SignedUpTo(MaxRationalArgumentDigits),
        d \in UnsignedUpTo(MaxRationalArgumentDigits) \ {<<>>}}

InitRational ==
    /\ bitsPerDigit = RationalBits
    /\ op = "none"
    /\ x = Rational_default
    /\ y = <<>>
    /\ shift = 0
    /\ old = x
    /\ out = [thrown |-> FALSE]

\* a member operation or constructor of Rational named name ran with
\* argument v, left u in the object and handed back r
RationalMember(name, v, u, r) ==
    /\ Len(u.num.val) <= MaxRationalDigits
    /\ Len(u.den) <= MaxRationalDigits
    /\ op' = name
    /\ y' = v
    /\ old' = x
    /\ x' = u
    /\ out' = r
    /\ UNCHANGED <<bitsPerDigit, shift>>

\* a construction that throws leaves x alone, another one initialises x
RationalConstructed(name, v, r) ==
    RationalMember(name, v, IF r.thrown THEN x ELSE produced(r), r)

\* one statement: a constructor or an arithmetic operation of Rational on x,
\* or the end of a statement
NextRational ==
    \* the constructors
    \/ Ready /\ RationalConstructed("Rational()", <<>>, returnedRational(Rational_default))
    \/ Ready /\ \E n \in Numerators : \E d \in UnsignedUpTo(MaxRationalArgumentDigits) :
                    RationalConstructed("Rational(num, den)", [num |-> n, den |-> d],
                                        Rational_construct(n, d))
    \/ Ready /\ \E n \in Numerators :
                    RationalConstructed("Rational(v)", n,
                                        returnedRational(Rational_fromSigned(n)))
    \* the compound assignments with another object
    \/ Ready /\ \E v \in RationalArguments :
                    RationalConstructed("+=", v,
                        returnedRational(Rational_operatorPlusAssign(x, v, FALSE)))
    \/ Ready /\ \E v \in RationalArguments :
                    RationalConstructed("-=", v,
                        returnedRational(Rational_operatorMinusAssign(x, v, FALSE)))
    \/ Ready /\ \E v \in RationalArguments :
                    RationalConstructed("*=", v,
                        returnedRational(Rational_operatorTimesAssign(x, v)))
    \/ Ready /\ \E v \in RationalArguments :
                    RationalMember("/=", v, produced(Rational_operatorDivideAssign(x, v, FALSE)),
                                   Rational_operatorDivideAssign(x, v, FALSE))
    \* the compound assignments of the object with itself
    \/ Ready /\ RationalConstructed("+=", x,
                    returnedRational(Rational_operatorPlusAssign(x, x, TRUE)))
    \/ Ready /\ RationalConstructed("-=", x,
                    returnedRational(Rational_operatorMinusAssign(x, x, TRUE)))
    \/ Ready /\ RationalConstructed("*=", x,
                    returnedRational(Rational_operatorTimesAssign(x, x)))
    \/ Ready /\ RationalMember("/=", x, produced(Rational_operatorDivideAssign(x, x, TRUE)),
                               Rational_operatorDivideAssign(x, x, TRUE))
    \* unary minus, the reciprocal and the binary operators
    \/ Ready /\ Free("-x", <<>>, 0, Rational_operatorNegate(x))
    \/ Ready /\ Free("reciprocal", <<>>, 0, Rational_reciprocal(x))
    \/ Ready /\ \E v \in RationalArguments : Free("+", v, 0, Rational_operatorPlus(x, v))
    \/ Ready /\ \E v \in RationalArguments : Free("-", v, 0, Rational_operatorMinus(x, v))
    \/ Ready /\ \E v \in RationalArguments : Free("*", v, 0, Rational_operatorTimes(x, v))
    \/ Ready /\ \E v \in RationalArguments : Free("/", v, 0, Rational_operatorDivide(x, v))
    \/ EndOfStatement

SpecRational == InitRational /\ [][NextRational]_vars

RECURSIVE Gcd(_, _)
\* the greatest common divisor of two natural numbers
Gcd(a, b) == IF b = 0 THEN a ELSE Gcd(b, a % b)

\* the denominator is not zero and numerator and denominator have no common
\* divisor
RationalReduced(r) ==
    /\ Len(r.den) # 0
    /\ Value(r.den) # 0
    /\ Gcd(Value(r.num.val), Value(r.den)) = 1

RationalAssignEqualsBinary ==
    /\ (op = "+=") => Rational_operatorEqual(x, Rational_operatorPlus(old, y))
    /\ (op = "-=") => Rational_operatorEqual(x, Rational_operatorMinus(old, y))
    /\ (op = "*=") => Rational_operatorEqual(x, Rational_operatorTimes(old, y))
    /\ (op = "/=" /\ Value(y.num.val) # 0) =>
            /\ ~out.thrown
            /\ Rational_operatorEqual(x, Rational_operatorDivide(old, y))

(***************************************************************************)
(* Store: the digit buffer of an Unsigned. A Store is the record           *)
(* [mem, cap, sz, smem]: smem is the contents of its inline array and mem  *)
(* is the pointer to its buffer, which is the address of the inline array  *)
(* or of a heap block. The heap is the record [block, overrun, invalid]:   *)
(* block maps an address to the digits of the block and whether it is      *)
(* allocated, overrun records that a memcpy read or wrote more digits than *)
(* a buffer has, and invalid that deallocate got an address that is not    *)
(* an allocated block.                                                     *)
(***************************************************************************)

\* the digit width of the build the Store operations are checked in
\* (DIGIT_T is std::uint64_t)
StoreBits == 64

\* Store::smemsize, with sizeof(std::size_t) = sizeof(void*) = 8
smemsize == (64 - 2 * 8 - 8) \div (bitsPerDigit \div 8)

\* the value of mem when it points to the inline array smem of its Store
smem == 0

\* the number of heap blocks that can be allocated at the same time
MaxBlocks == 3

\* the value of a digit that was never written, or was read behind the end
\* of a buffer: it is no digit a statement writes
Indeterminate == -1

\* count digits that were never written
Uninitialized(count) == [i \in 1..count |-> Indeterminate]

\* the heap before the first allocation
EmptyHeap ==
    [block |-> [p \in 1..MaxBlocks |-> [live |-> FALSE, digits |-> <<>>]],
     overrun |-> FALSE, invalid |-> FALSE]

\* malloc has a block to return
CanAllocate(h) == \E p \in 1..MaxBlocks : ~h.block[p].live

\* Store::alloc_digits(count): the address of a new heap block of count
\* digits, and the heap with it
alloc_digits(h, count) ==
    LET p == CHOOSE q \in 1..MaxBlocks :
                 ~h.block[q].live /\ \A r \in 1..(q - 1) : h.block[r].live
    IN  [ptr |-> p,
         heap |-> [h EXCEPT !.block[p] = [live |-> TRUE, digits |-> Uninitialized(count)]]]

\* Store::deallocate(ptr)
deallocate(h, ptr) ==
    IF ptr # smem /\ h.block[ptr].live
    THEN [h EXCEPT !.block[ptr] = [live |-> FALSE, digits |-> <<>>]]
    ELSE [h EXCEPT !.invalid = TRUE]

\* the digits of the buffer the pointer ptr of the Store s points to
Buffer(s, h, ptr) == IF ptr = smem THEN s.smem ELSE h.block[ptr].digits

\* memcpy(dst, src, n * sizeof(digit_t)): the digits of dst afterwards; a
\* digit read behind the end of src is indeterminate, a digit written
\* behind the end of dst is not part of dst
memcpy(dst, src, n) ==
    [i \in 1..Len(dst) |->
        IF i <= n THEN (IF i <= Len(src) THEN src[i] ELSE Indeterminate) ELSE dst[i]]

\* the Store s and the heap h after memcpy(ptr, src, n), ptr being a
\* pointer of s
Copied(s, h, ptr, src, n) ==
    LET o == h.overrun \/ n > Len(src) \/ n > Len(Buffer(s, h, ptr))
    IN  IF ptr = smem
        THEN [this |-> [s EXCEPT !.smem = memcpy(s.smem, src, n)],
              heap |-> [h EXCEPT !.overrun = o]]
        ELSE [this |-> s,
              heap |-> [h EXCEPT !.block[ptr].digits = memcpy(h.block[ptr].digits, src, n),
                                 !.overrun = o]]

\* Store::Store()
Store_default == [mem |-> smem, cap |-> smemsize, sz |-> 0, smem |-> Uninitialized(smemsize)]

\* Store::Store(const Store& other): the constructed Store and the heap
Store_copy(other, h) ==
    IF other.sz <= smemsize
    THEN LET c == Copied(Store_default, h, smem, Buffer(other, h, other.mem), other.sz)
         IN  [this |-> [c.this EXCEPT !.sz = other.sz], heap |-> c.heap]
    ELSE LET a == alloc_digits(h, other.sz)
             c == Copied(Store_default, a.heap, a.ptr, Buffer(other, h, other.mem), other.sz)
         IN  [this |-> [c.this EXCEPT !.mem = a.ptr, !.cap = other.sz, !.sz = other.sz],
              heap |-> c.heap]

\* Store::Store(Store&& other): the constructed Store, what is left in
\* other, and the heap
Store_move(other, h) ==
    IF other.cap = smemsize
    THEN LET c == Copied(Store_default, h, smem, other.smem, other.sz)
         IN  [this |-> [c.this EXCEPT !.cap = other.cap, !.sz = other.sz],
              other |-> other, heap |-> c.heap]
    ELSE [this |-> [Store_default EXCEPT !.mem = other.mem, !.cap = other.cap, !.sz = other.sz],
          other |-> [other EXCEPT !.mem = smem, !.cap = smemsize, !.sz = 0],
          heap |-> h]

\* Store::~Store(): the heap afterwards
Store_destroy(this, h) == IF this.cap # smemsize THEN deallocate(h, this.mem) ELSE h

\* Store::operator=(const Store& other): *this and the heap afterwards
Store_copyAssign(this, other, h) ==
    LET src == Buffer(other, h, other.mem)
        t == IF other.sz <= smemsize
             THEN IF this.cap >= 2 * smemsize
                  THEN [this |-> [this EXCEPT !.mem = smem, !.cap = smemsize],
                        heap |-> deallocate(h, this.mem)]
                  ELSE [this |-> this, heap |-> h]
             ELSE IF other.sz <= this.cap
             THEN IF this.cap >= 2 * other.sz
                  THEN LET a == alloc_digits(h, other.sz)
                       IN  [this |-> [this EXCEPT !.mem = a.ptr, !.cap = other.sz],
                            heap |-> deallocate(a.heap, this.mem)]
                  ELSE [this |-> this, heap |-> h]
             ELSE LET a == alloc_digits(h, other.sz)
                  IN  [this |-> [this EXCEPT !.mem = a.ptr],
                       heap |-> IF this.cap # smemsize
                                THEN deallocate(a.heap, this.mem)
                                ELSE a.heap]
        c == Copied(t.this, t.heap, t.this.mem, src, other.sz)
    IN  [this |-> [c.this EXCEPT !.sz = other.sz], heap |-> c.heap]

\* Store::operator=(Store&& other): what is left in *this and in other, and
\* the heap
Store_moveAssign(this, other, h) ==
    IF other.cap = smemsize
    THEN LET c == Copied(this, h, smem, other.smem, other.sz)
         IN  IF this.cap = smemsize
             THEN [this |-> [c.this EXCEPT !.sz = other.sz], other |-> other,
                   heap |-> c.heap]
             ELSE [this |-> [c.this EXCEPT !.mem = smem, !.cap = smemsize, !.sz = other.sz],
                   other |-> [other EXCEPT !.mem = this.mem, !.cap = this.cap, !.sz = this.sz],
                   heap |-> c.heap]
    ELSE IF this.cap = smemsize
    THEN LET c == Copied(other, h, smem, this.smem, this.sz)
         IN  [this |-> [this EXCEPT !.mem = other.mem, !.cap = other.cap, !.sz = other.sz],
              other |-> [c.this EXCEPT !.mem = smem, !.cap = smemsize, !.sz = this.sz],
              heap |-> c.heap]
    ELSE [this |-> [this EXCEPT !.mem = other.mem, !.cap = other.cap, !.sz = other.sz],
          other |-> [other EXCEPT !.mem = this.mem, !.cap = this.cap, !.sz = this.sz],
          heap |-> h]

\* Store::resize(std::size_t newsize): *this and the heap afterwards
Store_resize(this, newsize, h) ==
    IF newsize <= smemsize
    THEN IF this.cap >= 2 * smemsize
         THEN LET c == Copied(this, h, smem, Buffer(this, h, this.mem), newsize)
              IN  [this |-> [c.this EXCEPT !.mem = smem, !.cap = smemsize, !.sz = newsize],
                   heap |-> deallocate(c.heap, this.mem)]
         ELSE [this |-> [this EXCEPT !.sz = newsize], heap |-> h]
    ELSE IF newsize <= this.cap
    THEN IF this.cap >= 2 * newsize
         THEN LET a == alloc_digits(h, newsize)
                  c == Copied(this, a.heap, a.ptr, Buffer(this, h, this.mem), newsize)
              IN  [this |-> [c.this EXCEPT !.mem = a.ptr, !.cap = newsize, !.sz = newsize],
                   heap |-> deallocate(c.heap, this.mem)]
         ELSE [this |-> [this EXCEPT !.sz = newsize], heap |-> h]
    ELSE LET a == alloc_digits(h, newsize)
             c == Copied(this, a.heap, a.ptr, Buffer(this, h, this.mem), this.sz)
         IN  [this |-> [c.this EXCEPT !.mem = a.ptr, !.cap = newsize, !.sz = newsize],
              heap |-> IF this.cap # smemsize
                       THEN deallocate(c.heap, this.mem)
                       ELSE c.heap]

\* Store::operator[](i) = v for every i < size(): *this and the heap
\* afterwards
Store_fill(this, v, h) ==
    Copied(this, h, this.mem, [i \in 1..this.sz |-> v], this.sz)

\* the digits operator[] reads at 0..size()-1
StoreDigits(s, h) ==
    LET b == Buffer(s, h, s.mem)
    IN  [i \in 1..s.sz |-> IF i <= Len(b) THEN b[i] ELSE Indeterminate]

(***************************************************************************)
(* Two Store objects x and y; a statement applies one operation of Store.  *)
(* The heap is out, and shift is the argument of the statement.            *)
(***************************************************************************)

\* the largest size a Store is resized to
MaxStoreSize == 12

\* the sizes a Store is resized to: on both sides of smemsize and of
\* 2 * smemsize, up to MaxStoreSize
StoreSizes ==
    {0, 2, smemsize, smemsize + 1, 2 * smemsize + 1, MaxStoreSize}

\* the largest digit a statement writes
MaxDigit == 2

InitStore ==
    /\ bitsPerDigit = StoreBits
    /\ op = "Store()"
    /\ x = Store_default
    /\ y = Store_default
    /\ shift = 0
    /\ old = <<>>
    /\ out = EmptyHeap

\* the digits d of a buffer with the first n of them as they are and the
\* others indeterminate
Determinate(d, n) == [i \in 1..Len(d) |-> IF i <= n THEN d[i] ELSE Indeterminate]

\* the Store s as operator[] can read it: the digits at size() and above,
\* and the inline array of a Store whose mem points elsewhere, are
\* indeterminate
VisibleStore(s) ==
    [s EXCEPT !.smem = Determinate(s.smem, IF s.mem = smem THEN s.sz ELSE 0)]

\* the heap blocks the Stores a and b point to, the one of a first
Referenced(a, b) ==
    (IF a.mem = smem THEN <<>> ELSE <<a.mem>>)
    \o (IF b.mem = smem \/ b.mem = a.mem THEN <<>> ELSE <<b.mem>>)

\* the heap h as the Stores a and b can read it, with the addresses malloc
\* could have returned as well: the blocks a and b point to come first, the
\* digits of a block at size() and above are indeterminate, and an
\* allocated block that neither points to has no digits that can be read
VisibleHeap(h, a, b) ==
    LET r == Referenced(a, b)
        lost == Cardinality({p \in 1..MaxBlocks :
                    h.block[p].live /\ p # a.mem /\ p # b.mem})
    IN  [h EXCEPT !.block = [p \in 1..MaxBlocks |->
            IF p <= Len(r)
            THEN [h.block[r[p]] EXCEPT
                     !.digits = Determinate(@, IF r[p] = a.mem THEN a.sz ELSE b.sz)]
            ELSE [live |-> p <= Len(r) + lost, digits |-> <<>>]]]

\* the Store s of the Stores a and b with its pointer into VisibleHeap
Relocated(s, a, b) ==
    LET r == Referenced(a, b)
    IN  IF s.mem = smem THEN s
        ELSE [s EXCEPT !.mem = CHOOSE p \in 1..Len(r) : r[p] = s.mem]

\* the statement named name ran with the argument n and left a in x, b in y
\* and the heap h; no statement follows one whose behaviour is undefined
StoreStatement(name, n, a, b, h) ==
    /\ CanAllocate(out)
    /\ ~out.overrun /\ ~out.invalid
    /\ op' = name
    /\ x' = VisibleStore(Relocated(a, a, b))
    /\ y' = VisibleStore(Relocated(b, a, b))
    /\ shift' = n
    /\ out' = VisibleHeap(h, a, b)
    /\ UNCHANGED <<bitsPerDigit, old>>

\* one statement on the Store objects x and y; x is the one that is resized
\* and written, and y gets its buffers from x: a constructor constructs y
\* anew, after the destructor of the y there was
NextStore ==
    \/ StoreStatement("Store()", 0, x, Store_default, Store_destroy(y, out))
    \/ LET c == Store_copy(x, Store_destroy(y, out))
       IN  StoreStatement("Store(const Store&)", 0, x, c.this, c.heap)
    \/ LET m == Store_move(x, Store_destroy(y, out))
       IN  StoreStatement("Store(Store&&)", 0, m.other, m.this, m.heap)
    \/ LET c == Store_copyAssign(x, y, out)
       IN  StoreStatement("x = y", 0, c.this, y, c.heap)
    \/ LET c == Store_copyAssign(y, x, out)
       IN  StoreStatement("y = x", 0, x, c.this, c.heap)
    \/ LET m == Store_moveAssign(x, y, out)
       IN  StoreStatement("x = std::move(y)", 0, m.this, m.other, m.heap)
    \/ LET m == Store_moveAssign(y, x, out)
       IN  StoreStatement("y = std::move(x)", 0, m.other, m.this, m.heap)
    \/ \E newsize \in StoreSizes :
           LET r == Store_resize(x, newsize, out)
           IN  StoreStatement("x.resize", newsize, r.this, y, r.heap)
    \* operator[](std::size_t i): a write to mem[i], for every i < sz
    \/ \E v \in 1..MaxDigit :
           LET w == Store_fill(x, v, out)
           IN  x.sz > 0 /\ StoreStatement("x[i]", v, w.this, y, w.heap)
    \* both objects go out of scope, and two new ones are declared
    \/ StoreStatement("~Store()", 0, Store_default, Store_default,
                      Store_destroy(x, Store_destroy(y, out)))

SpecStore == InitStore /\ [][NextStore]_vars

\* the number of digits of the buffer mem points to
Capacity(s, h) == Len(Buffer(s, h, s.mem))

\* the size is at most the number of digits of the buffer mem points to, and
\* cap is that number
StoreValid(s) == s.sz <= Capacity(s, out) /\ s.cap = Capacity(s, out)

\* C9: after any sequence of Store operations every Store has size() <=
\* capacity, where capacity is the number of digits of the buffer mem points
\* to, and the cap field equals that number.
StoreSizeWithinCapacity == StoreValid(x) /\ StoreValid(y)

(***************************************************************************)
(* Unsigned: construction from a decimal string and str(). A string is     *)
(* the sequence of its character codes, '0' being 48 and '9' being 57; the *)
(* terminating NUL is the end of the sequence.                             *)
(***************************************************************************)

RECURSIVE computeMaxDecDigitsPerDigit(_)
computeMaxDecDigitsPerDigit(val) ==
    IF val >= 10 THEN 1 + computeMaxDecDigitsPerDigit(val \div 10) ELSE 0

\* computeMaxDecDigitsPerDigit(std::numeric_limits<digit_t>::max())
maxDecDigitsPerDigit == computeMaxDecDigitsPerDigit(Base - 1)

RECURSIVE computeMaxPow10PerDigit(_)
computeMaxPow10PerDigit(val) ==
    IF val >= 10 THEN ToDigit(10 * computeMaxPow10PerDigit(val \div 10)) ELSE 1

\* computeMaxPow10PerDigit(std::numeric_limits<digit_t>::max())
maxPow10PerDigit == computeMaxPow10PerDigit(Base - 1)

RECURSIVE decCountLoop(_, _, _)
\* while (*end && (count < impl::maxDecDigitsPerDigit)) { ++count; ++end; }
decCountLoop(dec, end, count) ==
    IF end < Len(dec) /\ count < maxDecDigitsPerDigit
    THEN decCountLoop(dec, end + 1, count + 1)
    ELSE count

RECURSIVE decMulLoop(_, _, _)
\* for (std::size_t i = 0; i < count; ++i) mul *= 10;
decMulLoop(mul, i, count) ==
    IF i < count THEN decMulLoop(ToDigit(mul * 10), i + 1, count) ELSE mul

RECURSIVE decAddLoop(_, _, _, _)
\* for (const char* curr = dec; curr != end; ++curr): the check of *curr and
\* add = 10 * add + (*curr - '0')
decAddLoop(dec, curr, end, add) ==
    IF curr # end
    THEN IF At(dec, curr) < 48 \/ At(dec, curr) > 57
         THEN [thrown |-> TRUE]
         ELSE decAddLoop(dec, curr + 1, end, ToDigit(10 * add + (At(dec, curr) - 48)))
    ELSE [thrown |-> FALSE, add |-> add]

RECURSIVE fromStringLoop(_, _, _)
\* while (*dec) of Unsigned::Unsigned(const char* dec); pos is where dec points
fromStringLoop(d, dec, pos) ==
    LET \* after multiplyByDigit(mul) and the loop that computes add
        added(m, a, count) ==
            IF a.thrown THEN [thrown |-> TRUE]
            ELSE fromStringLoop(addDigit(m, a.add), dec, pos + count)
        \* after the loop that counts the characters of the chunk
        counted(count) ==
            added(multiplyByDigit(d, IF count = maxDecDigitsPerDigit THEN maxPow10PerDigit
                                     ELSE decMulLoop(1, 0, count)),
                  decAddLoop(dec, pos, pos + count, 0),
                  count)
    IN IF pos < Len(dec) THEN counted(decCountLoop(dec, pos, 0))
       ELSE [thrown |-> FALSE, digit |-> d]

\* Unsigned::Unsigned(const char* dec)
Unsigned_fromString(dec) ==
    IF Len(dec) = 0 THEN [thrown |-> TRUE] ELSE fromStringLoop(<<>>, dec, 0)

RECURSIVE strPushLoop(_, _, _)
\* for (unsigned i = 0; i < impl::maxDecDigitsPerDigit; ++i)
\*     { s.push_back('0' + static_cast<char>(mod % 10)); mod /= 10; }
strPushLoop(s, mod, i) ==
    IF i < maxDecDigitsPerDigit
    THEN strPushLoop(Append(s, 48 + (mod % 10)), mod \div 10, i + 1)
    ELSE s

RECURSIVE strLoop(_, _)
\* while (temp.digit.size() > 0) of Unsigned::str
strLoop(temp, s) ==
    LET \* after mod = temp.divideByDigitReturnRem(impl::maxPow10PerDigit)
        divided(q) == strLoop(q.digit, strPushLoop(s, q.rem, 0))
    IN IF Len(temp) > 0 THEN divided(divideByDigitReturnRem(temp, maxPow10PerDigit))
       ELSE s

RECURSIVE strPopLoop(_)
\* while (s.back() == '0') s.pop_back();
strPopLoop(s) ==
    IF At(s, Len(s) - 1) = 48 THEN strPopLoop(SubSeq(s, 1, Len(s) - 1)) ELSE s

\* std::reverse(s.begin(), s.end()) left undone
reverseSkipped(s) == s

\* std::reverse(s.begin(), s.end())
reverse(s) == [i \in 1..Len(s) |-> s[Len(s) + 1 - i]]

\* Unsigned::str() const
Unsigned_str(d) ==
    IF Len(d) = 0 THEN <<48>> ELSE reverse(strPopLoop(strLoop(d, <<>>)))

(***************************************************************************)
(* The round trip: x is a string, an Unsigned is constructed from it and   *)
(* str() is called on the Unsigned.                                        *)
(***************************************************************************)

\* the digit width of the build the round trip is checked in (DIGIT_T is
\* std::uint8_t)
StrBits == 8

\* the largest length of a string
MaxStrLen == 4

\* the characters of the strings: '0' to '9', and '/' and ':' next to them
Chars == 47..58

InitStr ==
    /\ bitsPerDigit = StrBits
    /\ op = "none"
    /\ x \in UNION {[1..n -> Chars] : n \in 0..MaxStrLen}
    /\ y = <<>>
    /\ shift = 0
    /\ old = <<>>
    /\ out = [thrown |-> FALSE]

\* Unsigned u(x)
Construct ==
    /\ op = "none"
    /\ op' = "Unsigned(dec)"
    /\ out' = Unsigned_fromString(x)
    /\ y' = IF Unsigned_fromString(x).thrown THEN y ELSE Unsigned_fromString(x).digit
    /\ UNCHANGED <<bitsPerDigit, x, shift, old>>

\* u.str()
Str ==
    /\ op = "Unsigned(dec)"
    /\ ~out.thrown
    /\ op' = "str"
    /\ out' = [thrown |-> FALSE, str |-> Unsigned_str(y)]
    /\ UNCHANGED <<bitsPerDigit, x, y, shift, old>>

NextStr == Construct \/ Str

SpecStr == InitStr /\ [][NextStr]_vars

\* a non-empty string of decimal digits
IsDecimal(s) == Len(s) > 0 /\ \A i \in 1..Len(s) : s[i] >= 48 /\ s[i] <= 57

RECURSIVE WithoutLeadingZeros(_)
\* the same number without leading zeros; "0" for zero
WithoutLeadingZeros(s) ==
    IF Len(s) > 1 /\ s[1] = 48 THEN WithoutLeadingZeros(Tail(s)) ELSE s

\* C10: for every decimal string s that is "0" or has no leading zero,
\* Unsigned(s).str() = s; for a digit string with leading zeros the output
\* is the same number without them; for strings of any length.
StrRoundTrip ==
    /\ (op = "Unsigned(dec)" /\ IsDecimal(x)) => (~out.thrown /\ Canonical(y))
    /\ (op = "str" /\ IsDecimal(x)) => out.str = WithoutLeadingZeros(x)

\* a string without leading zero whose length is not a multiple of the
\* chunk size made a round trip through an Unsigned of two digits
StrRoundTripOddLength ==
    /\ op = "str"
    /\ IsDecimal(x)
    /\ Len(x) % maxDecDigitsPerDigit # 0
    /\ x[1] # 48
    /\ Len(y) = 2
    /\ out.str = x

(***************************************************************************)
(* Calls of the free functions and operators on drawn operands: u is x, v  *)
(* is y and a count (a shift or an exponent) is shift; one call is made    *)
(* and its result is left in out.                                          *)
(***************************************************************************)

\* the digit width of the build the calls are checked in
CallBits == 2

\* the operands of a call in a build of digits of bits bits: Unsigned values
\* of at most n and m digits and a count of at most s
InitCallIn(bits, n, m, s) ==
    /\ bitsPerDigit = bits
    /\ op = "init"
    /\ x \in UnsignedUpTo(n)
    /\ y \in UnsignedUpTo(m)
    /\ shift \in 0..s
    /\ old = x
    /\ out = <<>>

\* the operands of a call in the build of digits of CallBits bits
InitCall(n, m, s) == InitCallIn(CallBits, n, m, s)

\* the call named name is made and returns r
Call(name, r) ==
    /\ op = "init"
    /\ op' = name
    /\ out' = r
    /\ UNCHANGED <<bitsPerDigit, x, y, shift, old>>

(***************************************************************************)
(* The greatest common divisor.                                            *)
(***************************************************************************)

\* the loop of egcd left after its first pass
egcdLoopLeftEarly(a, b) == IF Len(b) # 0 THEN b ELSE a

RECURSIVE egcdLoop(_, _)
\* while (!b.empty()) { c = a % b; a = b; b = c; } return a;
egcdLoop(a, b) == IF Len(b) # 0 THEN egcdLoop(b, operatorModulo(a, b).digit) ELSE a

\* egcd(const Unsigned& u, const Unsigned& v); v <= u is !(u < v)
egcd(u, v) == IF ~operatorLess(u, v) THEN egcdLoop(u, v) ELSE egcdLoop(v, u)

\* gcd(const Unsigned& u, const Unsigned& v)
gcd(u, v) == bgcd(u, v)

\* the largest number of digits of an operand of the gcd functions
MaxGcdDigits == 3

SpecGcd ==
    InitCall(MaxGcdDigits, MaxGcdDigits, 0)
        /\ [][Call("gcd", [egcd |-> egcd(x, y), bgcd |-> bgcd(x, y), gcd |-> gcd(x, y)])]_vars

\* C11: for all naturals u and v, egcd(u, v) == bgcd(u, v) == gcd(u, v);
\* when u and v are not both zero the result is the greatest divisor of
\* both, and when one input is zero the other input is returned.
GcdFunctionsAgree ==
    (op = "gcd") =>
        /\ operatorEqual(out.egcd, out.bgcd)
        /\ operatorEqual(out.bgcd, out.gcd)
        /\ Canonical(out.gcd)
        /\ Value(out.gcd) = Gcd(Value(x), Value(y))
        /\ (Len(x) = 0) => (out.egcd = y /\ out.bgcd = y /\ out.gcd = y)
        /\ (Len(y) = 0) => (out.egcd = x /\ out.bgcd = x /\ out.gcd = x)

\* two different operands of more than one digit have a common divisor that
\* is neither 1 nor one of them
GcdOfCompositeOperands ==
    /\ op = "gcd"
    /\ Len(x) > 1
    /\ Len(y) > 1
    /\ Value(out.gcd) > 1
    /\ Value(out.gcd) < Value(x)
    /\ Value(out.gcd) < Value(y)
    /\ Value(out.egcd) = Value(out.gcd)

(***************************************************************************)
(* Shifting left and back.                                                 *)
(***************************************************************************)

\* Unsigned::bits() const
Unsigned_bits(d) == bitsPerDigit * Len(d) - Unsigned_countLeadingZeroes(d)

\* the largest number of digits of a shifted value, and the largest shift
MaxShiftedDigits == 3
MaxShiftCount == 7

SpecShift ==
    InitCall(MaxShiftedDigits, 0, MaxShiftCount)
        /\ [][Call("<<>>", [shl |-> operatorShl(x, shift),
                            back |-> operatorShr(operatorShl(x, shift), shift),
                            shr |-> operatorShr(x, shift),
                            bits |-> Unsigned_bits(x)])]_vars

\* C12: for all u and all s >= 0, (u << s) >> s == u; and u >> s is zero
\* whenever s >= u.bits().
ShiftLeftThenRightIsIdentity ==
    (op = "<<>>") =>
        /\ operatorEqual(out.back, x)
        /\ out.back = x
        /\ Value(out.shl) = Value(x) * 2 ^ shift
        /\ Canonical(out.shl)
        /\ (shift >= out.bits) => (out.shr = <<>>)
        /\ Value(out.shr) = Value(x) \div 2 ^ shift

\* a value of several digits is shifted by whole digits and some bits more,
\* and a shift to the right by as many bits as the value has gives zero
ShiftAcrossDigits ==
    /\ op = "<<>>"
    /\ Len(x) > 1
    /\ shift > bitsPerDigit
    /\ shift % bitsPerDigit # 0
    /\ Len(out.shl) > Len(x) + 1
    /\ shift = out.bits
    /\ out.shr = <<>>

(***************************************************************************)
(* Subtraction.                                                            *)
(***************************************************************************)

\* the largest number of digits of an operand of a subtraction
MaxMinusDigits == 3

SpecMinus ==
    InitCall(MaxMinusDigits, MaxMinusDigits, 0)
        /\ [][Call("u-v", [minus |-> operatorMinus(x, y),
                           assign |-> operatorMinusAssign(x, y)])]_vars

\* C14: u - v and u -= v throw std::invalid_argument exactly when u < v;
\* otherwise they produce u - v with no leading zero digit.
MinusThrowsIffLess ==
    (op = "u-v") =>
        /\ out.minus.thrown <=> (Value(x) < Value(y))
        /\ out.assign.thrown <=> (Value(x) < Value(y))
        /\ out.minus.thrown <=> operatorLess(x, y)
        /\ ~out.minus.thrown =>
              /\ Canonical(out.minus.digit)
              /\ Value(out.minus.digit) = Value(x) - Value(y)
        /\ ~out.assign.thrown =>
              /\ Canonical(out.assign.digit)
              /\ Value(out.assign.digit) = Value(x) - Value(y)

\* a borrow runs through digits of u beyond those of v and the difference
\* loses digits
MinusBorrowsAndShrinks ==
    /\ op = "u-v"
    /\ ~out.minus.thrown
    /\ ~out.assign.thrown
    /\ Len(y) > 0
    /\ Len(x) > Len(y) + 1
    /\ At(x, 0) < At(y, 0)
    /\ Len(out.minus.digit) < Len(x)
    /\ Len(out.minus.digit) > 0
    /\ out.assign.digit = out.minus.digit

(***************************************************************************)
(* The decimal text of a Signed: the statements of Signed run in a build   *)
(* whose digit holds a power of ten, and str() or the stream operator is   *)
(* called on the object between statements.                                *)
(***************************************************************************)

\* Signed::str() const; '-' is 45
Signed_str(u) == IF u.sign = -1 THEN <<45>> \o Unsigned_str(u.val) ELSE Unsigned_str(u.val)

\* operator<<(std::ostream& os, const Signed& s): the characters written;
\* os << s.val writes s.val.str()
Signed_stream(u) ==
    (IF u.sign = -1 THEN <<45>> ELSE <<>>) \o Unsigned_str(u.val)

\* the digit width of the build the text of a Signed is checked in
SignedStrBits == 4

\* the largest number of digits of the Signed the statements start from
MaxSignedStrDigits == 1

InitSignedStr ==
    /\ bitsPerDigit = SignedStrBits
    /\ op = "none"
    /\ x \in SignedUpTo(MaxSignedStrDigits)
    /\ y = <<>>
    /\ shift = 0
    /\ old = x
    /\ out = [thrown |-> FALSE]

\* x.str() and os << x
SignedStr ==
    /\ Ready
    /\ op' = "str"
    /\ out' = [thrown |-> FALSE, str |-> Signed_str(x), stream |-> Signed_stream(x)]
    /\ UNCHANGED <<bitsPerDigit, x, y, shift, old>>

NextSignedStr == NextSigned \/ SignedStr

SpecSignedStr == InitSignedStr /\ [][NextSignedStr]_vars

operatorDivideAssign(d, v) ==
    [thrown |-> operatorDivide(d, v).thrown,
     digit |-> IF operatorDivide(d, v).thrown THEN d ELSE operatorDivide(d, v).digit]

\* Unsigned::operator%=(const Unsigned& v)
operatorModuloAssign(d, v) ==
    [thrown |-> operatorModulo(d, v).thrown,
     digit |-> IF operatorModulo(d, v).thrown THEN d ELSE operatorModulo(d, v).digit]

\* Unsigned::div(const Unsigned& v): quot is what *this becomes, rem is returned
memberDiv(d, v) ==
    IF div(d, v).thrown THEN [thrown |-> TRUE, quot |-> d]
    ELSE [thrown |-> FALSE, quot |-> div(d, v).quot, rem |-> div(d, v).rem]

\* the Signed of magnitude d, negative when neg
SignedOperand(d, neg) ==
    IF neg THEN Signed_operatorNegate(Signed_fromUnsigned(d)) ELSE Signed_fromUnsigned(d)

\* the largest number of digits of a dividend and of a divisor, and the
\* number of the combinations of signs
MaxZeroDivDividendDigits == 2
MaxZeroDivDivisorDigits == 1
MaxSignCombination == 3

\* the Signed operands of a call, u and v: shift chooses their signs
leftSigned == SignedOperand(x, shift % 2 = 1)
rightSigned == SignedOperand(y, shift \div 2 = 1)

SpecZeroDiv ==
    InitCall(MaxZeroDivDividendDigits, MaxZeroDivDivisorDigits, MaxSignCombination)
        /\ [][\/ shift = 0 /\ Call("Unsigned",
                      [div |-> div(x, y),
                       quot |-> operatorDivide(x, y),
                       rem |-> operatorModulo(x, y),
                       quotAssign |-> operatorDivideAssign(x, y),
                       remAssign |-> operatorModuloAssign(x, y),
                       memberDiv |-> memberDiv(x, y)])
              \/ Call("Signed",
                      [div |-> Signed_div(leftSigned, rightSigned),
                       quot |-> Signed_operatorDivide(leftSigned, rightSigned),
                       rem |-> Signed_operatorModulo(leftSigned, rightSigned),
                       quotAssign |-> Signed_operatorDivideAssign(leftSigned, rightSigned),
                       remAssign |-> Signed_operatorModuloAssign(leftSigned, rightSigned),
                       memberDiv |-> Signed_memberDiv(leftSigned, rightSigned)])
              \/ Call("Rational",
                      [quot |-> Rational_operatorDivide(Rational_fromSigned(leftSigned),
                                                        Rational_fromSigned(rightSigned)),
                       quotAssign |->
                           Rational_operatorDivideAssign(Rational_fromSigned(leftSigned),
                                                         Rational_fromSigned(rightSigned),
                                                         FALSE)])]_vars

\* C15: dividing by zero throws std::invalid_argument in all three types:
\* Unsigned div, /, %, /=, %= and member div; Signed div, /, %, /=, %= and
\* member div; Rational / and /=.  No quotient or remainder is produced.
DivisionByZeroThrows ==
    /\ (op = "Unsigned" /\ Len(y) = 0) =>
          /\ out.div = [thrown |-> TRUE]
          /\ out.quot = [thrown |-> TRUE]
          /\ out.rem = [thrown |-> TRUE]
          /\ out.quotAssign = [thrown |-> TRUE, digit |-> x]
          /\ out.remAssign = [thrown |-> TRUE, digit |-> x]
          /\ out.memberDiv = [thrown |-> TRUE, quot |-> x]
    /\ (op = "Signed" /\ Len(y) = 0) =>
          /\ out.div = [thrown |-> TRUE]
          /\ out.quot = [thrown |-> TRUE]
          /\ out.rem = [thrown |-> TRUE]
          /\ out.quotAssign = [thrown |-> TRUE, val |-> leftSigned.val, sign |-> leftSigned.sign]
          /\ out.remAssign = [thrown |-> TRUE, val |-> leftSigned.val, sign |-> leftSigned.sign]
          /\ out.memberDiv = [thrown |-> TRUE, quot |-> leftSigned]
    /\ (op = "Rational" /\ Len(y) = 0) =>
          /\ out.quot = [thrown |-> TRUE]
          /\ out.quotAssign = [thrown |-> TRUE, num |-> leftSigned,
                               den |-> Rational_fromSigned(leftSigned).den]

\* a negative leftSigned of two digits is divided by zero as a Signed
SignedDividedByZero ==
    /\ op = "Signed"
    /\ Len(y) = 0
    /\ Len(x) = 2
    /\ leftSigned.sign = -1
    /\ out.div.thrown
    /\ out.memberDiv.thrown

(***************************************************************************)
(* Multiplication.                                                         *)
(***************************************************************************)

\* Unsigned::operator*=(const Unsigned& v): w = *this * v; *this = std::move(w);
operatorTimesAssign(d, v) == operatorTimes(d, v)

\* the largest number of digits of a factor
MaxTimesDigits == 3

SpecTimes ==
    InitCall(MaxTimesDigits, MaxTimesDigits, 0)
        /\ [][Call("u*v", [times |-> operatorTimes(x, y),
                           assign |-> operatorTimesAssign(x, y),
                           square |-> operatorTimesAssign(x, x)])]_vars

\* C16: u * v equals the mathematical product (zero when either operand is
\* zero), with carries propagated and no leading zero digit; u *= v gives
\* the same result, also when v is the same object as u.
TimesIsProduct ==
    (op = "u*v") =>
        /\ Value(out.times) = Value(x) * Value(y)
        /\ Canonical(out.times)
        /\ (Len(x) = 0 \/ Len(y) = 0) => (out.times = <<>>)
        /\ out.assign = out.times
        /\ Value(out.square) = Value(x) * Value(x)
        /\ Canonical(out.square)

\* factors of several digits whose product has a carry into its top digit,
\* and a square of a factor of several digits
TimesCarriesIntoTopDigit ==
    /\ op = "u*v"
    /\ Len(x) > 1
    /\ Len(y) > 1
    /\ x # y
    /\ Len(out.times) = Len(x) + Len(y)
    /\ Len(out.square) = 2 * Len(x)

(***************************************************************************)
(* Addition and subtraction of Signed.                                     *)
(***************************************************************************)

\* the largest number of digits of the magnitude of an operand
MaxSumDigits == 2

SpecSignedSum ==
    InitCall(MaxSumDigits, MaxSumDigits, MaxSignCombination)
        /\ [][Call("u+-v", [plus |-> Signed_operatorPlus(leftSigned, rightSigned),
                            minus |-> Signed_operatorMinus(leftSigned, rightSigned),
                            plusAssign |-> Signed_operatorPlusAssign(leftSigned, rightSigned),
                            minusAssign |-> Signed_operatorMinusAssign(leftSigned, rightSigned)])]_vars

\* C17: Signed u + v and u - v equal the integer sum and difference for
\* every combination of signs and magnitudes, including equal magnitudes of
\* opposite signs and a zero operand; u += v and u -= v give the same.
SignedSumIsIntegerSum ==
    (op = "u+-v") =>
        /\ IntValue(out.plus) = IntValue(leftSigned) + IntValue(rightSigned)
        /\ IntValue(out.minus) = IntValue(leftSigned) - IntValue(rightSigned)
        /\ SignedValid(out.plus) /\ Canonical(out.plus.val)
        /\ SignedValid(out.minus) /\ Canonical(out.minus.val)
        /\ out.plusAssign = out.plus
        /\ out.minusAssign = out.minus

\* magnitudes of two digits that are equal, with opposite signs: the sum is
\* zero with sign 0
SignedSumCancels ==
    /\ op = "u+-v"
    /\ Len(x) = 2
    /\ x = y
    /\ leftSigned.sign = -1
    /\ rightSigned.sign = 1
    /\ out.plus = [val |-> <<>>, sign |-> 0]
    /\ IntValue(out.minus) = 2 * IntValue(leftSigned)

(***************************************************************************)
(* The integer square root.                                                *)
(***************************************************************************)

\* a step of the loop of sqrt that moves bit down by one bit only
sqrtNextBitByOne(bit) == operatorShrAssign(bit, 1)

\* bit >>= 2;
sqrtNextBit(bit) == operatorShrAssign(bit, 2)

RECURSIVE sqrtLoop(_, _, _)
\* while (bit != 0) { if (n >= r + bit) { n -= r; n -= bit; r >>= 1; r += bit; }
\*                    else { r >>= 1; } bit >>= 2; } return r;
\* [thrown |-> a subtraction threw, digit |-> the digits of r]
sqrtLoop(bit, r, n) ==
    LET \* after n -= r
        second(m) ==
            IF m.thrown THEN [thrown |-> TRUE]
            ELSE sqrtLoop(sqrtNextBit(bit),
                          operatorPlusAssign(operatorShrAssign(r, 1), bit),
                          m.digit)
        first(m) == IF m.thrown THEN [thrown |-> TRUE]
                    ELSE second(operatorMinusAssign(m.digit, bit))
    IN IF ~operatorEqual(bit, initFromIntegral(0, 1))
       THEN IF ~operatorLess(n, operatorPlus(r, bit))
            THEN first(operatorMinusAssign(n, r))
            ELSE sqrtLoop(sqrtNextBit(bit), operatorShrAssign(r, 1), n)
       ELSE [thrown |-> FALSE, digit |-> r]

\* sqrt(const Unsigned& u); ~1 clears the lowest bit of bits() - 1
sqrt(u) ==
    IF Len(u) = 0 THEN [thrown |-> FALSE, digit |-> u]
    ELSE sqrtLoop(operatorShlAssign(initFromIntegral(1, 1),
                                    2 * ((Unsigned_bits(u) - 1) \div 2)),
                  <<>>, u)

\* the digit width of the build sqrt is checked in, and the largest number
\* of digits of its argument
SqrtBits == 4
MaxSqrtDigits == 3

SpecSqrt ==
    InitCallIn(SqrtBits, MaxSqrtDigits, 0, 0) /\ [][Call("sqrt", sqrt(x))]_vars

\* C18: s = sqrt(n) satisfies s * s <= n < (s + 1) * (s + 1); sqrt(0) == 0.
SqrtIsIntegerSquareRoot ==
    (op = "sqrt") =>
        /\ ~out.thrown
        /\ Canonical(out.digit)
        /\ Value(out.digit) * Value(out.digit) <= Value(x)
        /\ Value(x) < (Value(out.digit) + 1) * (Value(out.digit) + 1)
        /\ (Len(x) = 0) => (out.digit = <<>>)

\* an argument of three digits that is not a square, with a root of two digits
SqrtOfNonSquare ==
    /\ op = "sqrt"
    /\ Len(x) = 3
    /\ Len(out.digit) = 2
    /\ Value(out.digit) * Value(out.digit) < Value(x)

(***************************************************************************)
(* Powers.                                                                 *)
(***************************************************************************)

RECURSIVE powLoop(_, _, _)
\* while (true) { if (exp & 1) r *= p; exp >>= 1; if (exp == 0) return r; p *= p; }
powLoop(r, p, exp) ==
    LET \* after if (exp & 1) r *= p; exp >>= 1;
        halved(r1, e) == IF e = 0 THEN r1 ELSE powLoop(r1, operatorTimesAssign(p, p), e)
    IN halved(IF BitAnd(exp, 1) # 0 THEN operatorTimesAssign(r, p) ELSE r, shr(exp, 1))

\* pow(const Unsigned& u, std::size_t exp)
pow(u, exp) == powLoop(initFromIntegral(1, 1), u, exp)

RECURSIVE powmodLoop(_, _, _, _)
\* while (true) { if (exp.digit[0] & 1) r = (r * p) % mod; exp >>= 1;
\*                if (exp.digits() == 0) return r; p = (p * p) % mod; }
powmodLoop(r, p, exp, mod) ==
    LET \* after if (exp.digit[0] & 1) r = (r * p) % mod; exp >>= 1;
        halved(r1, e) ==
            IF Len(e) = 0 THEN [thrown |-> FALSE, digit |-> r1]
            ELSE powmodLoop(r1, operatorModulo(operatorTimes(p, p), mod).digit, e, mod)
    IN halved(IF BitAnd(At(exp, 0), 1) # 0
              THEN operatorModulo(operatorTimes(r, p), mod).digit
              ELSE r,
              operatorShrAssign(exp, 1))

\* powmod(const Unsigned& u, Unsigned exp, const Unsigned& mod)
\* [thrown |-> u % mod threw std::invalid_argument, digit |-> the digits returned]
powmod(u, exp, mod) ==
    IF Len(exp) = 0 THEN [thrown |-> FALSE, digit |-> initFromIntegral(1, 1)]
    ELSE IF operatorModulo(u, mod).thrown THEN [thrown |-> TRUE]
    ELSE powmodLoop(initFromIntegral(1, 1), operatorModulo(u, mod).digit, exp, mod)

\* the digit width of the build the powers are checked in, the largest
\* number of digits of a base and of a modulus, and the largest exponent
PowBits == 4
MaxPowDigits == 1
MaxModDigits == 2
MaxExponent == 5

\* the exponent handed to powmod: the Unsigned constructed from the exponent
\* of pow, an integer of two digits
exponent == initFromIntegral(shift, 2)

SpecPow ==
    InitCallIn(PowBits, MaxPowDigits, MaxModDigits, MaxExponent)
        /\ [][Call("pow", [pow |-> pow(x, shift),
                           powmod |-> powmod(x, exponent, y)])]_vars

\* C19: for all u, exp >= 0 and mod >= 1, powmod(u, exp, mod) ==
\* pow(u, exp) % mod; and pow(u, 0) == 1.
PowmodIsPowModulo ==
    (op = "pow") =>
        /\ (Len(y) # 0) =>
              /\ ~out.powmod.thrown
              /\ operatorEqual(out.powmod.digit, operatorModulo(out.pow, y).digit)
        /\ (shift = 0) => operatorEqual(out.pow, initFromIntegral(1, 1))

(***************************************************************************)
(* The order of Rational.                                                  *)
(***************************************************************************)

\* the comparison of the magnitudes a.num.abs() / a.den and b.num.abs() / b.den
\* that ends operator<: by the numbers of digits, then by cross-multiplication
lessMagnitude(a, b) ==
    LET m == Len(a.num.val) - Len(a.den)
        n == Len(b.num.val) - Len(b.den)
    IN IF m + 1 <= n - 1 THEN TRUE
       ELSE IF n + 1 <= m - 1 THEN FALSE
       ELSE operatorLess(operatorTimes(a.num.val, b.den), operatorTimes(b.num.val, a.den))

\* an order that compares the magnitudes of u and v as they come
Rational_operatorLessUnswapped(u, v) ==
    IF u.num.sign # v.num.sign THEN u.num.sign < v.num.sign
    ELSE IF u.num.sign = 0 THEN FALSE
    ELSE lessMagnitude(u, v)

\* operator<(const Rational& u, const Rational& v)
Rational_operatorLess(u, v) ==
    IF u.num.sign # v.num.sign THEN u.num.sign < v.num.sign
    ELSE IF u.num.sign = 0 THEN FALSE
    ELSE IF u.num.sign = 1 THEN lessMagnitude(u, v)
    ELSE lessMagnitude(v, u)

\* the largest number of digits of the numerator and of the denominator a
\* compared Rational is constructed from
MaxLessDigits == 2

\* the Rationals as the constructors leave them: a Signed over a non-zero
\* Unsigned, in lowest terms
Rationals ==
    {r \in [num : SignedUpTo(MaxLessDigits), den : UnsignedUpTo(MaxLessDigits) \ {<<>>}] :
        Gcd(Value(r.num.val), Value(r.den)) = 1}

InitLess ==
    /\ bitsPerDigit = RationalBits
    /\ op = "init"
    /\ x \in Rationals
    /\ y \in Rationals
    /\ shift = 0
    /\ old = x
    /\ out = <<>>

SpecLess == InitLess /\ [][Call("u<v", Rational_operatorLess(x, y))]_vars

\* C20: Rational u < v exactly when u.num * v.den < v.num * u.den; the
\* comparison of the signs and the fast path on the numbers of digits never
\* differ from the cross-multiplication.
RationalLessIsCrossMultiplication ==
    (op = "u<v") =>
        (out <=> (IntValue(x.num) * Value(y.den) < IntValue(y.num) * Value(x.den)))

\* two negative Rationals that the numbers of digits alone tell apart
RationalLessByDigitsOfNegatives ==
    /\ op = "u<v"
    /\ x.num.sign = -1
    /\ y.num.sign = -1
    /\ (Len(y.num.val) - Len(y.den)) + 2 <= Len(x.num.val) - Len(x.den)
    /\ out = TRUE

(***************************************************************************)
(* The operations of Store applied to every Store a sequence of statements *)
(* leaves in x or y. An operation is applied where malloc has a block to   *)
(* return and no statement before had undefined behaviour.                 *)
(***************************************************************************)

\* an operation of Store can be applied in this state
Applicable == CanAllocate(out) /\ ~out.overrun /\ ~out.invalid

\* the first n digits of the Store s in the heap h
FirstDigits(s, h, n) == SubSeq(StoreDigits(s, h), 1, n)

\* resize(newsize) on the Store s sets the size, keeps the digits below
\* the old and the new size, and copies inside the buffers only
ResizeKeeps(s, newsize) ==
    LET r == Store_resize(s, newsize, out)
        n == min(s.sz, newsize)
    IN  /\ r.this.sz = newsize
        /\ FirstDigits(r.this, r.heap, n) = FirstDigits(s, out, n)
        /\ ~r.heap.overrun

\* C23: after resize(n) on any Store, for every n, size() is n and the digits
\* 0 .. min(old size, n) - 1 hold the values they held before, whichever
\* buffer the Store had and gets.
ResizeKeepsSizeAndDigits ==
    Applicable => \A newsize \in StoreSizes : ResizeKeeps(x, newsize) /\ ResizeKeeps(y, newsize)

\* the Store dst made or assigned by a move from src has, in the heap h, the
\* size and the digits src had
MovedInto(dst, h, src) ==
    dst.sz = src.sz /\ StoreDigits(dst, h) = StoreDigits(src, out)

\* C24: after any sequence of Store operations, a Store move-constructed or
\* move-assigned from a Store has the size and the digits the source had
\* immediately before the move.
MoveKeepsSizeAndDigits ==
    Applicable =>
        /\ MovedInto(Store_move(x, out).this, Store_move(x, out).heap, x)
        /\ MovedInto(Store_move(y, out).this, Store_move(y, out).heap, y)
        /\ MovedInto(Store_moveAssign(y, x, out).this, Store_moveAssign(y, x, out).heap, x)
        /\ MovedInto(Store_moveAssign(x, y, out).this, Store_moveAssign(x, y, out).heap, y)

\* C25: when every Store is destroyed after any sequence of Store
\* operations, every heap block alloc_digits returned has been passed to
\* deallocate exactly once, and no two Stores ever hold the same heap block.
EveryBlockFreedOnce ==
    LET h == Store_destroy(x, Store_destroy(y, out))
    IN  /\ \A p \in 1..MaxBlocks : ~h.block[p].live
        /\ ~h.invalid
        /\ x.mem = smem \/ x.mem # y.mem

\* the Store s is empty and uses its inline array
EmptyInline(s) == s.sz = 0 /\ s.mem = smem /\ s.cap = smemsize

\* C26: after a move construction or a move assignment from a Store s, s is
\* empty and uses its inline array with the inline capacity.
MovedFromIsEmptyInline ==
    Applicable =>
        /\ EmptyInline(Store_move(x, out).other)
        /\ EmptyInline(Store_moveAssign(y, x, out).other)

\* resize(newsize) on the heap-backed Store s frees its block and leaves it
\* in its inline array with the first newsize digits
ResizeToInline(s, newsize) ==
    LET r == Store_resize(s, newsize, out)
        n == min(s.sz, newsize)
    IN  /\ ~r.heap.block[s.mem].live
        /\ r.this.mem = smem
        /\ r.this.cap = smemsize
        /\ FirstDigits(r.this, r.heap, n) = FirstDigits(s, out, n)

\* C27: resize(n) with n <= smemsize on a heap-backed Store deallocates the
\* heap block and leaves the Store in its inline array with the inline
\* capacity, holding the first n digits, whatever the capacity of the block.
SmallResizeReturnsToInline ==
    Applicable =>
        \A newsize \in StoreSizes :
            (x.mem # smem /\ newsize <= smemsize) => ResizeToInline(x, newsize)

(***************************************************************************)
(* The quotient digits of Algorithm D, position by position.               *)
(***************************************************************************)

\* the number the digits nu[j .. j + n] of the running remainder stand for
WindowValue(nu, j, n) == Value(SubSeq(nu, j + 1, j + n + 1))

\* the borrow of step D4 of div for the quotient digit qd at position j
divD4Borrow(nu, v, qd, j) ==
    LET s == divD4Loop(nu, 0, v, qd, j, 0)
    IN subBorrow(At(s.nu, j + Len(v)), s.carry, 0).borrow

\* at the positions j, j - 1, .., 0 of div: the digit of findDivQuotient is
\* the quotient of the window by v or one more, step D4 borrows exactly when
\* it is one more, and steps D5 and D6 leave the quotient digit in q and the
\* remainder of the window by v in the window
RECURSIVE QuotientDigitsWithinOne(_, _, _, _, _, _)
QuotientDigitsWithinOne(s, v, ls, vn1, vn2, j) ==
    LET n == Len(v)
        qd == findDivQuotient(s.nu, ls, vn1, vn2, j + n)
        w == WindowValue(s.nu, j, n)
        t == divStep(s.nu, s.q, v, ls, vn1, vn2, j)
    IN  /\ qd = w \div Value(v) \/ qd = w \div Value(v) + 1
        /\ (divD4Borrow(s.nu, v, qd, j) = 1) <=> (qd = w \div Value(v) + 1)
        /\ At(t.q, j) = w \div Value(v)
        /\ WindowValue(t.nu, j, n) = w % Value(v)
        /\ j = 0 \/ QuotientDigitsWithinOne(t, v, ls, vn1, vn2, j - 1)

\* the number of the positions j, j - 1, .., 0 of div at which step D4
\* borrows
RECURSIVE divAddBacks(_, _, _, _, _, _)
divAddBacks(s, v, ls, vn1, vn2, j) ==
    LET t == divStep(s.nu, s.q, v, ls, vn1, vn2, j)
        b == divD4Borrow(s.nu, v, findDivQuotient(s.nu, ls, vn1, vn2, j + Len(v)), j)
    IN  b + (IF j = 0 THEN 0 ELSE divAddBacks(t, v, ls, vn1, vn2, j - 1))

\* nu and q as div(u, v) has them before step D2
divStart(u, v) ==
    [nu |-> Put(resize(u, Len(u) + 1), Len(u), 0), q |-> resize(<<>>, Len(u) - Len(v) + 1)]

\* C28: in a division by a divisor of two digits or more, at every quotient
\* position the digit findDivQuotient returns is the true quotient digit of
\* the remainder window or one more, step D4 borrows only when it is one
\* more, and one add-back leaves a window that is not negative and smaller
\* than the divisor.
QuotientEstimateWithinOne ==
    (op = "div" /\ Len(y) >= 2 /\ Len(x) >= Len(y)) =>
        LET d1 == divNormalized(y, Unsigned_countLeadingZeroes(y))
        IN  QuotientDigitsWithinOne(divStart(x, y), y, d1.ls, d1.vn1, d1.vn2, Len(x) - Len(y))

\* a division with two quotient positions or more of which one had the
\* divisor added back and another had not
AddBackAtOneOfSeveralPositions ==
    /\ op = "div"
    /\ Len(y) >= 2
    /\ Len(x) > Len(y)
    /\ LET d1 == divNormalized(y, Unsigned_countLeadingZeroes(y))
           c == divAddBacks(divStart(x, y), y, d1.ls, d1.vn1, d1.vn2, Len(x) - Len(y))
       IN  c >= 1 /\ c <= Len(x) - Len(y)

(***************************************************************************)
(* The loops of bgcd and egcd, one pass at a time: u and v are drawn, one  *)
(* of the two functions is called, and old holds its working variables.    *)
(***************************************************************************)

\* one pass of the do-while loop of bgcd: wu and wv after wv -= wu
bgcdPass(wu, wv) ==
    LET \* after wv >>= vtz: the swap if wu > wv, then wv -= wu
        shifted(b) ==
            IF operatorLess(b, wu)
            THEN [wu |-> b, wv |-> operatorMinusAssign(wu, b).digit]
            ELSE [wu |-> wu, wv |-> operatorMinusAssign(b, wu).digit]
    IN shifted(operatorShrAssign(wv, Unsigned_ctz(wv)))

\* a pass of the loop of egcd that takes no remainder: it exchanges a and b,
\* and empties b only if they are equal
egcdPassWithoutRemainder(a, b) == [a |-> b, b |-> IF a = b THEN <<>> ELSE a]

\* one pass of the while loop of egcd: c = a % b; a = std::move(b);
\* b = std::move(c)
egcdPass(a, b) == [a |-> b, b |-> operatorModulo(a, b).digit]

\* the largest number of digits of an operand whose gcd is followed pass by
\* pass
MaxLoopDigits == 3

InitGcdLoops ==
    /\ bitsPerDigit = CallBits
    /\ op = "init"
    /\ x \in UnsignedUpTo(MaxLoopDigits)
    /\ y \in UnsignedUpTo(MaxLoopDigits)
    /\ shift = 0
    /\ old = [u |-> x, v |-> y]
    /\ out = <<>>

\* a function returned ret
Return(ret) ==
    /\ op' = "returned"
    /\ out' = ret
    /\ UNCHANGED <<bitsPerDigit, x, y, shift, old>>

\* bgcd(u, v) up to its do-while loop
bgcdCall ==
    /\ op = "init"
    /\ IF Len(x) = 0 THEN Return(y)
       ELSE IF Len(y) = 0 THEN Return(x)
       ELSE /\ op' = "bgcd"
            /\ shift' = min(Unsigned_ctz(x), Unsigned_ctz(y))
            /\ old' = [wu |-> operatorShrAssign(x, Unsigned_ctz(x)),
                       wv |-> operatorShrAssign(y, min(Unsigned_ctz(x), Unsigned_ctz(y)))]
            /\ UNCHANGED <<bitsPerDigit, x, y, out>>

\* one pass of the do-while loop of bgcd, its condition wv != 0, and the
\* return statement behind it
bgcdIterate ==
    /\ op = "bgcd"
    /\ IF ~operatorEqual(bgcdPass(old.wu, old.wv).wv, initFromIntegral(0, 1))
       THEN /\ old' = bgcdPass(old.wu, old.wv)
            /\ UNCHANGED <<bitsPerDigit, op, x, y, shift, out>>
       ELSE Return(operatorShl(bgcdPass(old.wu, old.wv).wu, shift))

\* egcd(u, v) up to its while loop
egcdCall ==
    /\ op = "init"
    /\ op' = "egcd"
    /\ old' = IF ~operatorLess(x, y) THEN [a |-> x, b |-> y] ELSE [a |-> y, b |-> x]
    /\ UNCHANGED <<bitsPerDigit, x, y, shift, out>>

\* the condition !b.empty() of the loop of egcd, and one pass of the loop or
\* the return statement behind it
egcdIterate ==
    /\ op = "egcd"
    /\ IF Len(old.b) # 0
       THEN /\ old' = egcdPass(old.a, old.b)
            /\ UNCHANGED <<bitsPerDigit, op, x, y, shift, out>>
       ELSE Return(old.a)

NextGcdLoops == bgcdCall \/ bgcdIterate \/ egcdCall \/ egcdIterate

\* the digit sequences a working variable of the loops can hold
Working == UNION {[1..n -> 0..(Base - 1)] : n \in 0..MaxLoopDigits}

\* the function that was called and has not returned executes a statement:
\* it changes its position or its working variables
Proceed ==
    /\ op # "returned"
    /\ op' \in {"bgcd", "egcd", "returned"}
    /\ old' \in [wu : Working, wv : Working] \cup [a : Working, b : Working]
    /\ shift' \in 0..(bitsPerDigit * MaxLoopDigits)
    /\ out' \in Working
    /\ UNCHANGED <<bitsPerDigit, x, y>>

\* a function that was called goes on with its next statement until it
\* returns. Every step is one of NextGcdLoops, so that where no pass of a
\* loop leaves the working variables as they are (PassChangesVariables) the
\* steps of Proceed are those of NextGcdLoops and this is
\* WF_vars(NextGcdLoops)
SpecGcdLoops ==
    /\ InitGcdLoops
    /\ [][NextGcdLoops]_vars
    /\ WF_vars(Proceed)

\* a pass after which the loop goes on has changed wu or wv, or a or b
PassChangesVariables ==
    /\ op = "bgcd" =>
           \/ operatorEqual(bgcdPass(old.wu, old.wv).wv, initFromIntegral(0, 1))
           \/ bgcdPass(old.wu, old.wv) # old
    /\ (op = "egcd" /\ Len(old.b) # 0) => egcdPass(old.a, old.b) # old

\* C29: for all naturals u and v, bgcd(u, v) and egcd(u, v) return after
\* finitely many passes of their loops: no pass leaves the loop where it
\* was, and the function that was called reaches its return statement.
GcdLoopsReturn == []PassChangesVariables /\ <>(op = "returned")

\* a function returned a common divisor that is neither operand nor 1, the
\* one bgcd(u, v) computes
GcdLoopReturnedProperDivisor ==
    /\ op = "returned"
    /\ out # x
    /\ out # y
    /\ Value(out) > 1
    /\ out = bgcd(x, y)

(***************************************************************************)
(* The receiver of a mutating operator that throws: u and v are drawn and  *)
(* the operators are applied to u; each result holds the receiver as the   *)
(* operator leaves it.                                                     *)
(***************************************************************************)

\* the largest number of digits of a receiver and of an argument
MaxReceiverDigits == 2

SpecReceiver ==
    InitCall(MaxReceiverDigits, MaxReceiverDigits, MaxSignCombination)
        /\ [][\/ shift = 0 /\ Call("Unsigned",
                      [minusAssign |-> operatorMinusAssign(x, y),
                       decrement |-> subtractDigit(x, 1),
                       quotAssign |-> operatorDivideAssign(x, y),
                       remAssign |-> operatorModuloAssign(x, y),
                       memberDiv |-> memberDiv(x, y)])
              \/ Call("Signed",
                      [quotAssign |-> Signed_operatorDivideAssign(leftSigned, rightSigned),
                       remAssign |-> Signed_operatorModuloAssign(leftSigned, rightSigned),
                       memberDiv |-> Signed_memberDiv(leftSigned, rightSigned)])
              \/ Call("Rational",
                      [quotAssign |->
                           Rational_operatorDivideAssign(Rational_fromSigned(leftSigned),
                                                         Rational_fromSigned(rightSigned),
                                                         FALSE)])]_vars

FractionBits == 2
ExponentBits == 4
ExponentBias == 2

\* 64, the width of std::uint64_t, which holds the bit pattern of a double
WordBits == 1 + ExponentBits + FractionBits

\* 0x7FF, the biased exponent of the infinities
InfiniteExponent == 2 ^ ExponentBits - 1

\* Unsigned::operator std::uint64_t() const
operatorUint64(d) ==
    IF Unsigned_bits(d) > WordBits THEN [thrown |-> TRUE, val |-> 0]
    ELSE [thrown |-> FALSE, val |-> Value(d) % (2 ^ WordBits)]

\* Rational::operator double() const
Rational_operatorDouble(r) ==
    LET sign == IF r.num.sign = -1 THEN 1 ELSE 0
        d == Unsigned_bits(r.num.val) - Unsigned_bits(r.den)
        \* after q >>= 1; --nls: the components
        components(q, nls) ==
            IF nls > ExponentBias + FractionBits - 1
            THEN [thrown |-> FALSE, sign |-> sign, bexp |-> 0,
                  frac |-> IF nls - (ExponentBias + FractionBits - 1) > WordBits - 1 THEN 0
                           ELSE q \div (2 ^ (nls - (ExponentBias + FractionBits - 1)))]
            ELSE IF -nls > InfiniteExponent - 1 - (ExponentBias + FractionBits)
            THEN [thrown |-> FALSE, sign |-> sign, bexp |-> InfiniteExponent, frac |-> 0]
            ELSE [thrown |-> FALSE, sign |-> sign,
                  bexp |-> ExponentBias + FractionBits - nls,
                  frac |-> q % (2 ^ FractionBits)]
        \* if (q & 3) { ++q; if (q & (1ull << 54)) { q >>= 1; --nls; } }
        \* and q >>= 1; --nls
        rounded(q, nls) ==
            IF q % 4 # 0
            THEN IF ((q + 1) \div (2 ^ (FractionBits + 2))) % 2 = 1
                 THEN components(((q + 1) \div 2) \div 2, nls - 2)
                 ELSE components((q + 1) \div 2, nls - 1)
            ELSE components(q \div 2, nls - 1)
        \* if (q & (1ull << 54)) { q >>= 1; --nls; }
        quotient(q, nls) ==
            IF q.thrown THEN [thrown |-> TRUE, sign |-> 0, bexp |-> 0, frac |-> 0]
            ELSE IF (q.val \div (2 ^ (FractionBits + 2))) % 2 = 1
            THEN rounded(q.val \div 2, nls - 1)
            ELSE rounded(q.val, nls)
        \* after nls = 54 - d: snum and q
        shifted(nls) ==
            quotient(operatorUint64(operatorDivide(IF nls >= 0 THEN operatorShl(r.num.val, nls)
                                                   ELSE operatorShr(r.num.val, -nls),
                                                   r.den).digit),
                     nls)
    IN IF Len(r.num.val) = 0
       THEN [thrown |-> FALSE, sign |-> 0, bexp |-> 0, frac |-> 0]
       ELSE IF d <= -(ExponentBias + FractionBits)
       THEN [thrown |-> FALSE, sign |-> sign, bexp |-> 0, frac |-> 0]
       ELSE IF d >= InfiniteExponent - ExponentBias + 1
       THEN [thrown |-> FALSE, sign |-> sign, bexp |-> InfiniteExponent, frac |-> 0]
       ELSE shifted(FractionBits + 2 - d)

\* the largest number of digits of the numerator and of the denominator of
\* a converted Rational
MaxConvertedNumeratorDigits == 3
MaxConvertedDenominatorDigits == 2

\* a non-zero Rational in lowest terms is drawn: x and y are its numerator
\* and denominator, shift chooses its sign
InitToDouble ==
    /\ InitCall(MaxConvertedNumeratorDigits, MaxConvertedDenominatorDigits, 1)
    /\ Len(x) # 0
    /\ Len(y) # 0
    /\ Gcd(Value(x), Value(y)) = 1

SpecToDouble ==
    InitToDouble
        /\ [][Call("double", Rational_operatorDouble([num |-> leftSigned, den |-> y]))]_vars

\* the normal doubles
NormalDoubles ==
    [sign : {0, 1}, bexp : 1..(InfiniteExponent - 1), frac : 0..(2 ^ FractionBits - 1)]

\* the magnitude of the normal double e, times 2 ^ (ExponentBias + FractionBits - 1)
ScaledMagnitude(e) == (2 ^ FractionBits + e.frac) * (2 ^ (e.bexp - 1))

\* the distance of the magnitude x / y from that of the normal double e,
\* times y * 2 ^ (ExponentBias + FractionBits - 1)
ScaledDistance(e) ==
    IF Value(x) * (2 ^ (ExponentBias + FractionBits - 1)) >= ScaledMagnitude(e) * Value(y)
    THEN Value(x) * (2 ^ (ExponentBias + FractionBits - 1)) - ScaledMagnitude(e) * Value(y)
    ELSE ScaledMagnitude(e) * Value(y) - Value(x) * (2 ^ (ExponentBias + FractionBits - 1))

\* the doubles of the sign and the fields of out
Converted == [sign |-> out.sign, bexp |-> out.bexp, frac |-> out.frac]

\* C22: for every non-zero Rational r whose magnitude lies in the normal
\* range, static_cast<double>(r) is the double nearest to r, and when r lies
\* halfway between two adjacent doubles the one whose least significant
\* fraction bit is 0 is returned.
DoubleIsNearestTiesToEven ==
    (/\ op = "double"
     /\ \E lo \in NormalDoubles, hi \in NormalDoubles :
            /\ ScaledMagnitude(lo) * Value(y)
                   <= Value(x) * (2 ^ (ExponentBias + FractionBits - 1))
            /\ Value(x) * (2 ^ (ExponentBias + FractionBits - 1))
                   <= ScaledMagnitude(hi) * Value(y)) =>
        /\ ~out.thrown
        /\ Converted \in NormalDoubles
        /\ out.sign = (IF leftSigned.sign = -1 THEN 1 ELSE 0)
        /\ \A e \in NormalDoubles :
               /\ ScaledDistance(Converted) <= ScaledDistance(e)
               /\ (/\ ScaledDistance(Converted) = ScaledDistance(e)
                   /\ ScaledMagnitude(e) # ScaledMagnitude(Converted)) => out.frac % 2 = 0

(***************************************************************************)
(* Rational(double) and back, statement by statement: x is the double d,   *)
(* y the Rational under construction, old and shift the working variables  *)
(* of the bgcd that reduce() calls, out the double converted back.         *)
(***************************************************************************)

\* Rational::Rational(double d) up to the call of reduce()
Rational_fromDouble(d) ==
    LET sign == IF d.sign = 1 THEN -1 ELSE 1
        one == initFromIntegral(1, 1)
        \* frac |= 0x10000000000000ull; num.val = Unsigned(frac)
        significand == initFromIntegral(2 ^ FractionBits + d.frac, WordBits \div bitsPerDigit)
    IN IF d.bexp = 0
       THEN IF d.frac # 0
            THEN [num |-> [val |-> initFromIntegral(d.frac, WordBits \div bitsPerDigit),
                           sign |-> sign],
                  den |-> operatorShlAssign(one, ExponentBias - 1 + FractionBits)]
            ELSE [num |-> [val |-> <<>>, sign |-> 0], den |-> one]
       ELSE IF d.bexp < ExponentBias + FractionBits
       THEN [num |-> [val |-> significand, sign |-> sign],
             den |-> operatorShlAssign(one, ExponentBias + FractionBits - d.bexp)]
       ELSE [num |-> [val |-> operatorShlAssign(significand,
                                                d.bexp - ExponentBias - FractionBits),
                      sign |-> sign],
             den |-> one]

\* Rational::reduce() after Unsigned d = gcd(num.abs(), den)
Rational_reduceBy(r, d) ==
    LET divided(n) ==
            [num |-> [val |-> n.val, sign |-> n.sign], den |-> operatorDivide(r.den, d).digit]
    IN divided(Signed_operatorDivideAssign(r.num, Signed_fromUnsigned(d)))

\* the finite doubles
FiniteDoubles ==
    [sign : {0, 1}, bexp : 0..(InfiniteExponent - 1), frac : 0..(2 ^ FractionBits - 1)]

InitFromDouble ==
    /\ bitsPerDigit = CallBits
    /\ op = "init"
    /\ x \in FiniteDoubles
    /\ y = Rational_default
    /\ shift = 0
    /\ old = [wu |-> <<>>, wv |-> <<>>]
    /\ out = [thrown |-> FALSE, sign |-> 0, bexp |-> 0, frac |-> 0]

\* Rational(d) up to reduce()
fromDoubleCall ==
    /\ op = "init"
    /\ op' = "reduce"
    /\ y' = Rational_fromDouble(x)
    /\ UNCHANGED <<bitsPerDigit, x, shift, old, out>>

\* gcd(num.abs(), den) returned d, which reduce() keeps in its variable d
\* (wu holds it here)
gcdReturn(d) ==
    /\ op' = "gcd"
    /\ old' = [wu |-> d, wv |-> <<>>]
    /\ UNCHANGED <<bitsPerDigit, x, y, shift, out>>

\* reduce() calls gcd(num.abs(), den), which is bgcd up to its do-while loop
reduceCall ==
    /\ op = "reduce"
    /\ IF Len(y.num.val) = 0 THEN gcdReturn(y.den)
       ELSE IF Len(y.den) = 0 THEN gcdReturn(y.num.val)
       ELSE /\ op' = "bgcd"
            /\ shift' = min(Unsigned_ctz(y.num.val), Unsigned_ctz(y.den))
            /\ old' = [wu |-> operatorShrAssign(y.num.val, Unsigned_ctz(y.num.val)),
                       wv |-> operatorShrAssign(y.den, min(Unsigned_ctz(y.num.val),
                                                           Unsigned_ctz(y.den)))]
            /\ UNCHANGED <<bitsPerDigit, x, y, out>>

\* one pass of the do-while loop of bgcd, its condition, and the return
\* statement of bgcd behind it
reduceIterate ==
    /\ op = "bgcd"
    /\ IF ~operatorEqual(bgcdPass(old.wu, old.wv).wv, initFromIntegral(0, 1))
       THEN /\ old' = bgcdPass(old.wu, old.wv)
            /\ UNCHANGED <<bitsPerDigit, op, x, y, shift, out>>
       ELSE gcdReturn(operatorShl(bgcdPass(old.wu, old.wv).wu, shift))

\* num /= d; den /= d; and the constructor returns
reduceReturn ==
    /\ op = "gcd"
    /\ op' = "constructed"
    /\ y' = Rational_reduceBy(y, old.wu)
    /\ UNCHANGED <<bitsPerDigit, x, shift, old, out>>

\* static_cast<double>(r) of the Rational r constructed
toDoubleCall ==
    /\ op = "constructed"
    /\ op' = "returned"
    /\ out' = Rational_operatorDouble(y)
    /\ UNCHANGED <<bitsPerDigit, x, y, shift, old>>

NextFromDouble ==
    fromDoubleCall \/ reduceCall \/ reduceIterate \/ reduceReturn \/ toDoubleCall

\* the digit sequences the numerator, the denominator and the working
\* variables can hold
ConversionDigits ==
    UNION {[1..n -> 0..(Base - 1)] : n \in 0..((ExponentBias + FractionBits) \div bitsPerDigit + 1)}

\* the construction and the conversion back execute a statement: they change
\* their position, the Rational, the working variables or the result
ProceedConversion ==
    /\ op # "returned"
    /\ op' \in {"reduce", "bgcd", "gcd", "constructed", "returned"}
    /\ y' \in [num : [val : ConversionDigits, sign : {-1, 0, 1}], den : ConversionDigits]
    /\ old' \in [wu : ConversionDigits, wv : ConversionDigits]
    /\ shift' \in 0..(ExponentBias + FractionBits)
    /\ out' \in [thrown : BOOLEAN, sign : {0, 1}, bexp : 0..InfiniteExponent,
                 frac : 0..(2 ^ FractionBits - 1)]
    /\ UNCHANGED <<bitsPerDigit, x>>

\* the construction and the conversion go on with their next statement
\* until the conversion returns. Every step is one of NextFromDouble, so
\* that where no pass of the loop of bgcd leaves wu and wv as they are
\* (ReducePassChangesVariables) this is WF_vars(NextFromDouble)
SpecFromDouble ==
    /\ InitFromDouble
    /\ [][NextFromDouble]_vars
    /\ WF_vars(ProceedConversion)

\* a pass of the loop of bgcd in reduce() after which the loop goes on has
\* changed wu or wv
ReducePassChangesVariables ==
    op = "bgcd" =>
        \/ operatorEqual(bgcdPass(old.wu, old.wv).wv, initFromIntegral(0, 1))
        \/ bgcdPass(old.wu, old.wv) # old

\* d == e for two doubles that are not NaN: the same fields, or two zeros
DoubleEqual(d, e) ==
    \/ d = e
    \/ d.bexp = 0 /\ d.frac = 0 /\ e.bexp = 0 /\ e.frac = 0

\* the double converted back equals d
ConvertedBack ==
    op = "returned" =>
        /\ ~out.thrown
        /\ DoubleEqual(Converted, x)

\* C21: for every finite double d, of every sign, biased exponent and
\* fraction, the construction of Rational(d) terminates (no pass of the loop
\* in reduce() leaves it where it was, and the conversion back is reached)
\* and static_cast<double>(Rational(d)) == d.
DoubleRoundTrip ==
    /\ []ReducePassChangesVariables
    /\ <>(op = "returned")
    /\ []ConvertedBack
====
